---- MODULE Spec2Model ----
(***************************************************************************)
(* A model of the cocktail advisor: the per-user profile (UserMemory), the *)
(* phrase-template classifier and extractors of RAGSystem, the corpus      *)
(* lookups of CocktailDataProcessor and the request pipeline of            *)
(* RAGSystem.generate_response as driven by the /chat route.               *)
(*                                                                         *)
(* Strings are TLC strings handled character by character (Len, SubSeq,    *)
(* \o), so lowercasing, trimming, substring tests and the regular          *)
(* expressions of the source are computed, not assumed.                    *)
(***************************************************************************)
EXTENDS Integers, Sequences, FiniteSets, TLC

(***************************************************************************)
(* Strings: str.lower, str.strip, the `in` operator.                       *)
(***************************************************************************)
WHITESPACE == {" ", "\t", "\n", "\r"}

Ch(s, i) == SubSeq(s, i, i)

Min(S) == CHOOSE x \in S : \A y \in S : x <= y
Max(S) == CHOOSE x \in S : \A y \in S : x >= y

\* F applied to the value of v, v being evaluated once
Bind(v, F(_)) == CHOOSE r \in {F(x) : x \in {v}} : TRUE

LowerChar(c) ==
    CASE c = "A" -> "a" [] c = "B" -> "b" [] c = "C" -> "c" [] c = "D" -> "d"
      [] c = "E" -> "e" [] c = "F" -> "f" [] c = "G" -> "g" [] c = "H" -> "h"
      [] c = "I" -> "i" [] c = "J" -> "j" [] c = "K" -> "k" [] c = "L" -> "l"
      [] c = "M" -> "m" [] c = "N" -> "n" [] c = "O" -> "o" [] c = "P" -> "p"
      [] c = "Q" -> "q" [] c = "R" -> "r" [] c = "S" -> "s" [] c = "T" -> "t"
      [] c = "U" -> "u" [] c = "V" -> "v" [] c = "W" -> "w" [] c = "X" -> "x"
      [] c = "Y" -> "y" [] c = "Z" -> "z" [] OTHER -> c

RECURSIVE LowerFrom(_, _)
LowerFrom(s, i) ==
    IF i > Len(s) THEN "" ELSE LowerChar(Ch(s, i)) \o LowerFrom(s, i + 1)

lower(s) == Bind(s, LAMBDA v : LowerFrom(v, 1))

\* the positions of s that hold no whitespace
Inked(s) == {i \in 1..Len(s) : Ch(s, i) \notin WHITESPACE}

strip(s) ==
    Bind(s, LAMBDA v :
        IF Inked(v) = {} THEN "" ELSE SubSeq(v, Min(Inked(v)), Max(Inked(v))))

\* lit occurs in s starting at position i
StartsWithAt(s, i, lit) ==
    /\ i >= 1
    /\ i + Len(lit) - 1 <= Len(s)
    /\ SubSeq(s, i, i + Len(lit) - 1) = lit

\* Python's `sub in s`
Contains(s, sub) == \E i \in 1..(Len(s) + 1) : StartsWithAt(s, i, sub)

(***************************************************************************)
(* Regular expressions.  A template is a sequence of segments; a segment   *)
(* is the sequence of its alternatives in the order the regex engine tries *)
(* them (a greedy optional group (?:X)? is <<X, "">>).  Backtracking tries *)
(* the complete choices in lexicographic order, first segment first.       *)
(***************************************************************************)
Cross(alts, rest) ==
    [k \in 1..(Len(alts) * Len(rest)) |->
        alts[((k - 1) \div Len(rest)) + 1] \o rest[((k - 1) % Len(rest)) + 1]]

RECURSIVE Expand(_)
Expand(segs) ==
    IF segs = <<>> THEN <<"">>
    ELSE Bind(Expand(Tail(segs)), LAMBDA rest : Cross(Head(segs), rest))

\* re.split(r',|\sand\s', text): the pieces between the separators, scanning
\* left to right without overlap
RECURSIVE SplitFrom(_, _, _)
SplitFrom(s, i, start) ==
    IF i > Len(s) THEN <<SubSeq(s, start, Len(s))>>
    ELSE IF Ch(s, i) = ","
         THEN <<SubSeq(s, start, i - 1)>> \o SplitFrom(s, i + 1, i + 1)
    ELSE IF /\ Ch(s, i) \in WHITESPACE
            /\ i + 4 <= Len(s)
            /\ SubSeq(s, i + 1, i + 3) = "and"
            /\ Ch(s, i + 4) \in WHITESPACE
         THEN <<SubSeq(s, start, i - 1)>> \o SplitFrom(s, i + 5, i + 5)
    ELSE SplitFrom(s, i + 1, start)

split_items(text) == Bind(text, LAMBDA v : SplitFrom(v, 1, 1))

NonBlank(x) == strip(x) # ""

\* [x.strip().lower() for x in pieces if x.strip()]
strip_lower_all(pieces) ==
    Bind(SelectSeq(pieces, NonBlank),
         LAMBDA kept : [k \in 1..Len(kept) |-> lower(strip(kept[k]))])

\* [x.strip() for x in pieces if x.strip()]
strip_all(pieces) ==
    Bind(SelectSeq(pieces, NonBlank),
         LAMBDA kept : [k \in 1..Len(kept) |-> strip(kept[k])])

RECURSIVE Flatten(_)
Flatten(ss) == IF ss = <<>> THEN <<>> ELSE Head(ss) \o Flatten(Tail(ss))

Range(f) == {f[i] : i \in DOMAIN f}

(***************************************************************************)
(* Lazy-capture templates  prefix (.+?) tail  of UserMemory, matched with  *)
(* re.IGNORECASE: the message and the template are compared lowercased.    *)
(***************************************************************************)
NoMatch == [capture |-> "", end |-> 0]

LowerAll(lits) == [k \in 1..Len(lits) |-> lower(lits[k])]

\* a template ready for matching: its alternatives spelled out, lowercased
Compile(pat) ==
    [prefix |-> LowerAll(Expand(pat.prefix)), tail |-> LowerAll(Expand(pat.tail))]

\* the tails that match low at position q
TailsAt(low, q, cp) ==
    {ti \in 1..Len(cp.tail) : StartsWithAt(low, q, cp.tail[ti])}

\* the capture lengths n for which (.+?) from position c is followed by a tail
CapturesAt(s, low, c, cp) ==
    {n \in 1..(Len(s) - c + 1) :
        /\ ~Contains(SubSeq(s, c, c + n - 1), "\n")
        /\ TailsAt(low, c + n, cp) # {}}

\* the prefix alternatives that match at position i and lead to a match
PrefixesAt(s, low, i, cp) ==
    {pi \in 1..Len(cp.prefix) :
        /\ StartsWithAt(low, i, cp.prefix[pi])
        /\ CapturesAt(s, low, i + Len(cp.prefix[pi]), cp) # {}}

\* the match the engine reports for a template started at position i:
\* first prefix alternative, then the shortest capture, then the first tail
LazyMatchAt(s, low, i, cp) ==
    IF PrefixesAt(s, low, i, cp) = {} THEN NoMatch
    ELSE Bind(i + Len(cp.prefix[Min(PrefixesAt(s, low, i, cp))]), LAMBDA c :
         Bind(Min(CapturesAt(s, low, c, cp)), LAMBDA n :
            [capture |-> SubSeq(s, c, c + n - 1),
             end     |-> c + n + Len(cp.tail[Min(TailsAt(low, c + n, cp))]) - 1]))

\* re.findall(pattern, s, re.IGNORECASE): the captures of the leftmost,
\* non-overlapping matches
RECURSIVE FindAllFrom(_, _, _, _)
FindAllFrom(s, low, pos, cp) ==
    Bind({i \in pos..Len(s) : PrefixesAt(s, low, i, cp) # {}}, LAMBDA starts :
        IF starts = {} THEN <<>>
        ELSE Bind(LazyMatchAt(s, low, Min(starts), cp), LAMBDA m :
                <<m.capture>> \o FindAllFrom(s, low, m.end + 1, cp)))

findall(cp, s) == Bind(lower(s), LAMBDA low : FindAllFrom(s, low, 1, cp))

InMyDrinksTail == << <<" in my drinks", " in my cocktails", "">>, <<".", "!">> >>
CocktailTail   == << <<" cocktail", "">>, <<".", "!">> >>
StopTail       == << <<".", "!">> >>

ingredient_patterns_memory == <<
    [prefix |-> << <<"I ">>, <<"really ", "">>, <<"like">>, <<" to use", "">>, <<" ">> >>,
     tail   |-> InMyDrinksTail],
    [prefix |-> << <<"I ">>, <<"really ", "">>, <<"love">>, <<" to use", "">>, <<" ">> >>,
     tail   |-> InMyDrinksTail],
    [prefix |-> << <<"My favorite ">>, <<"ingredient", "ingredients">>, <<" ">>,
                   <<"is", "are">>, <<" ">> >>,
     tail   |-> StopTail],
    [prefix |-> << <<"I prefer ">>, <<"to use ", "">> >>,
     tail   |-> InMyDrinksTail],
    [prefix |-> << <<"I enjoy ">>, <<"using ", "">> >>,
     tail   |-> InMyDrinksTail] >>

cocktail_patterns_memory == <<
    [prefix |-> << <<"I ">>, <<"really ", "">>, <<"like">>, <<" to drink", "">>, <<" ">>,
                   <<"the ", "">> >>,
     tail   |-> CocktailTail],
    [prefix |-> << <<"I ">>, <<"really ", "">>, <<"love">>, <<" to drink", "">>, <<" ">>,
                   <<"the ", "">> >>,
     tail   |-> CocktailTail],
    [prefix |-> << <<"My favorite ">>, <<"cocktail", "drink">>, <<" is ">>, <<"the ", "">> >>,
     tail   |-> StopTail],
    [prefix |-> << <<"I prefer ">>, <<"to drink ", "">>, <<"the ", "">> >>,
     tail   |-> CocktailTail],
    [prefix |-> << <<"I enjoy ">>, <<"drinking ", "">>, <<"the ", "">> >>,
     tail   |-> CocktailTail] >>

CompiledIngredientPatterns ==
    [p \in 1..Len(ingredient_patterns_memory) |-> Compile(ingredient_patterns_memory[p])]
        @@ <<>>
CompiledCocktailPatterns ==
    [p \in 1..Len(cocktail_patterns_memory) |-> Compile(cocktail_patterns_memory[p])]
        @@ <<>>

\* the pieces of every match of every pattern, pattern by pattern
DetectPieces(compiled, message) ==
    Flatten([p \in 1..Len(compiled) |->
        Bind(findall(compiled[p], message), LAMBDA matches :
            Flatten([k \in 1..Len(matches) |-> split_items(matches[k])]))])

detect_favorite_ingredients(message) ==
    strip_lower_all(DetectPieces(CompiledIngredientPatterns, message))

detect_favorite_cocktails(message) ==
    strip_all(DetectPieces(CompiledCocktailPatterns, message))

(***************************************************************************)
(* RAGSystem.identify_query_type: the templates are searched in the        *)
(* lowercased query, themselves spelled as in the source.                  *)
(***************************************************************************)
WithWords == <<"with", "containing", "that has", "that have">>
AOrAn     == <<"a", "an">>

\* [segs, capture]: capture is TRUE when the template ends in (.+)
ingredient_patterns == <<
    [segs |-> << <<"cocktails", "cocktail">>, <<" ">>, WithWords, <<" ">> >>,
     capture |-> TRUE],
    [segs |-> << <<"list", "show", "tell me", "what are">>, <<" ">>,
                 <<"some", "the", "all", "">>, <<" ">>,
                 <<"cocktails", "cocktail">>, <<" ">>, WithWords, <<" ">> >>,
     capture |-> TRUE],
    [segs |-> << <<"what ">>, <<"cocktails", "drinks">>, <<" ">>,
                 <<"can I make", "have", "contain">>, <<" ">>,
                 <<"with", "using">>, <<" ">> >>,
     capture |-> TRUE] >>

cocktail_patterns == <<
    [segs |-> << <<"how", "tell me how">>, <<" to make ">>, AOrAn, <<" ">> >>,
     capture |-> TRUE],
    [segs |-> << <<"what is", "what's">>, <<" ">>, AOrAn, <<" ">> >>,
     capture |-> TRUE],
    [segs |-> << <<"recipe", "ingredients">>, <<" for ">>, AOrAn, <<" ">> >>,
     capture |-> TRUE] >>

recommendation_patterns == <<
    [segs |-> << <<"recommend ">>, <<"a", "some">>, <<" cocktail">>, <<"s", "">> >>,
     capture |-> FALSE],
    [segs |-> << <<"suggest", "give me">>, <<" ">>, <<"a", "some">>,
                 <<" cocktail">>, <<"s", "">> >>,
     capture |-> FALSE],
    [segs |-> << <<"what cocktail should I ">>, <<"make", "try", "drink">> >>,
     capture |-> FALSE],
    [segs |-> << <<"similar to ">> >>, capture |-> TRUE],
    [segs |-> << <<"like ">>, AOrAn, <<" ">> >>, capture |-> TRUE] >>

preference_patterns == <<
    [segs |-> << <<"my", "I">>, <<" ">>,
                 <<"like", "love", "prefer", "favorite", "enjoy">> >>,
     capture |-> FALSE],
    [segs |-> << <<"remember", "save", "store">>, <<" ">>, <<"this", "these", "my">>,
                 <<" ">>, <<"preference", "ingredient", "cocktail">> >>,
     capture |-> FALSE],
    [segs |-> << <<"what are my ">>, <<"favorite", "preferred">>, <<" ">>,
                 <<"ingredients", "cocktails">> >>,
     capture |-> FALSE] >>

\* the literal alternatives of each template of a group
Literals(patterns) ==
    [p \in 1..Len(patterns) |->
        [lits |-> Expand(patterns[p].segs), capture |-> patterns[p].capture]] @@ <<>>

IngredientLiterals     == Literals(ingredient_patterns)
CocktailLiterals       == Literals(cocktail_patterns)
RecommendationLiterals == Literals(recommendation_patterns)
PreferenceLiterals     == Literals(preference_patterns)

\* re.search(pattern, text) for a template with literal alternatives, ending
\* in (.+) (at least one character other than a newline) or not
SearchLiteral(tpl, text) ==
    \E k \in 1..Len(tpl.lits) : \E i \in 1..Len(text) :
        /\ StartsWithAt(text, i, tpl.lits[k])
        /\ tpl.capture =>
              /\ i + Len(tpl.lits[k]) <= Len(text)
              /\ Ch(text, i + Len(tpl.lits[k])) # "\n"

AnyPattern(group, text) == \E p \in 1..Len(group) : SearchLiteral(group[p], text)

QueryTypes ==
    {"ingredient_query", "cocktail_query", "recommendation", "preference", "general"}

\* a variant without the final else
identify_query_type_no_default(query) ==
    Bind(lower(query), LAMBDA query_lower :
        IF AnyPattern(IngredientLiterals, query_lower) THEN "ingredient_query"
        ELSE IF AnyPattern(CocktailLiterals, query_lower) THEN "cocktail_query"
        ELSE IF AnyPattern(RecommendationLiterals, query_lower) THEN "recommendation"
        ELSE IF AnyPattern(PreferenceLiterals, query_lower) THEN "preference"
        ELSE "None")

\* a variant that tries the recommendation templates first
identify_query_type_recommendation_first(query) ==
    Bind(lower(query), LAMBDA query_lower :
        IF AnyPattern(RecommendationLiterals, query_lower) THEN "recommendation"
        ELSE IF AnyPattern(IngredientLiterals, query_lower) THEN "ingredient_query"
        ELSE IF AnyPattern(CocktailLiterals, query_lower) THEN "cocktail_query"
        ELSE IF AnyPattern(PreferenceLiterals, query_lower) THEN "preference"
        ELSE "general")

identify_query_type(query) ==
    Bind(lower(query), LAMBDA query_lower :
        IF AnyPattern(IngredientLiterals, query_lower) THEN "ingredient_query"
        ELSE IF AnyPattern(CocktailLiterals, query_lower) THEN "cocktail_query"
        ELSE IF AnyPattern(RecommendationLiterals, query_lower) THEN "recommendation"
        ELSE IF AnyPattern(PreferenceLiterals, query_lower) THEN "preference"
        ELSE "general")

(***************************************************************************)
(* RAGSystem.extract_ingredients_from_query / extract_cocktail_from_query: *)
(* templates  prefix ([^?.,!]+)  under re.IGNORECASE.                      *)
(***************************************************************************)
STOP_CHARS == {"?", ".", ",", "!"}

extract_ingredient_templates == <<
    << <<"with ">> >>,
    << <<"containing ">> >>,
    << <<"that ">>, <<"has", "have">>, <<" ">> >>,
    << <<"using ">> >> >>

extract_cocktail_templates == <<
    << <<"how to make ">>, AOrAn, <<" ">> >>,
    << <<"what is", "what's">>, <<" ">>, AOrAn, <<" ">> >>,
    << <<"recipe for ">>, AOrAn, <<" ">> >>,
    << <<"similar to ">> >>,
    << <<"like ">>, AOrAn, <<" ">> >> >>

ExtractIngredientLiterals ==
    [p \in 1..Len(extract_ingredient_templates) |->
        LowerAll(Expand(extract_ingredient_templates[p]))] @@ <<>>
ExtractCocktailLiterals ==
    [p \in 1..Len(extract_cocktail_templates) |->
        LowerAll(Expand(extract_cocktail_templates[p]))] @@ <<>>

\* the positions where the class [^?.,!] stops a run begun at position c
StopsFrom(s, c) == {j \in c..Len(s) : Ch(s, j) \in STOP_CHARS}

\* ([^?.,!]+) from position c: the longest run, or "" when there is none
GreedyRun(s, c) ==
    IF StopsFrom(s, c) = {} THEN SubSeq(s, c, Len(s))
    ELSE SubSeq(s, c, Min(StopsFrom(s, c)) - 1)

\* the <<position, alternative>> pairs where a template matches
GroupHits(s, low, lits) ==
    {h \in (1..Len(s)) \X (1..Len(lits)) :
        /\ StartsWithAt(low, h[1], lits[h[2]])
        /\ GreedyRun(s, h[1] + Len(lits[h[2]])) # ""}

\* re.search(pattern, s, re.IGNORECASE).group(1): leftmost position, then the
\* first alternative; <<>> when the template matches nowhere
SearchGroup(s, low, lits) ==
    Bind(GroupHits(s, low, lits), LAMBDA hits :
        IF hits = {} THEN <<>>
        ELSE Bind(Min({h[1] : h \in hits}), LAMBDA i :
             Bind(Min({h[2] : h \in {g \in hits : g[1] = i}}), LAMBDA k :
                <<GreedyRun(s, i + Len(lits[k]))>>)))

\* the group of the first template, in order, that matches; <<>> when none does
RECURSIVE FirstGroup(_, _, _, _)
FirstGroup(s, low, compiled, p) ==
    IF p > Len(compiled) THEN <<>>
    ELSE Bind(SearchGroup(s, low, compiled[p]), LAMBDA g :
            IF g # <<>> THEN g ELSE FirstGroup(s, low, compiled, p + 1))

extract_ingredients_from_query(query) ==
    Bind(FirstGroup(query, lower(query), ExtractIngredientLiterals, 1), LAMBDA g :
        IF g = <<>> THEN <<>> ELSE strip_lower_all(split_items(g[1])))

\* Optional[str]: <<>> is None, <<name>> a name (which may be "")
extract_cocktail_from_query(query) ==
    Bind(FirstGroup(query, lower(query), ExtractCocktailLiterals, 1), LAMBDA g :
        IF g = <<>> THEN <<>> ELSE <<strip(g[1])>>)

(***************************************************************************)
(* The messages the requests and calls of the model are drawn from, and    *)
(* what the detectors return on each (computed once per message).          *)
(***************************************************************************)
MemoryMessages ==
    {"I love gin and Lime.", "I like the Mojito cocktail. i LIKE mojito!",
     "My favorite ingredients are gin, lime!", "what is a Mojito?"}

\* the messages posted to /chat, one server process
ChatMessages ==
    {"I love gin.", "My favorite ingredient is Lime!", "my favorite cocktail is Mojito",
     "what are my favorite ingredients", "cocktails with lemon and mint",
     "cocktails with gin", "show me 2 cocktails with lime", "cocktails with kale",
     "cocktails with ?", "what is a Mojito?", "what is a ?", "what is a  ?",
     "what is a Zombie?", "recommend a cocktail similar to Mojito",
     "recommend a cocktail", "suggest a cocktail from my favourites",
     "I prefer gin. recommend a cocktail", "hello",
     "recommend my favorite cocktail similar to Mojito",
     "recommend a cocktail similar to Fizz"}

\* the messages posted to /chat, two server processes
ConcMessages == {"I love gin.", "My favorite ingredient is Lime!"}

AllMessages == MemoryMessages \cup ChatMessages \cup ConcMessages

DetectedIngredients ==
    [msg \in AllMessages |-> detect_favorite_ingredients(msg)] @@ <<>>
DetectedCocktails ==
    [msg \in AllMessages |-> detect_favorite_cocktails(msg)] @@ <<>>

\* what the classifier and the extractors return on each message
Intent ==
    [msg \in AllMessages |-> identify_query_type(msg)] @@ <<>>
ExtractedIngredients ==
    [msg \in AllMessages |-> extract_ingredients_from_query(msg)] @@ <<>>
ExtractedCocktail ==
    [msg \in AllMessages |-> extract_cocktail_from_query(msg)] @@ <<>>

(***************************************************************************)
(* UserMemory (app/core/memory.py).  An object is the record of its three  *)
(* fields plus `writes`, the profiles its _save_memory calls have handed   *)
(* to the file, oldest first.                                              *)
(***************************************************************************)
HISTORY_LIMIT == 50

EmptyProfile ==
    [favorite_ingredients |-> {}, favorite_cocktails |-> {},
     conversation_history |-> <<>>]

\* UserMemory.__init__, before _load_memory
NewUserMemory ==
    [favorite_ingredients |-> {}, favorite_cocktails |-> {},
     conversation_history |-> <<>>, writes |-> <<>>]

\* the dict _save_memory dumps
Profile(m) ==
    [favorite_ingredients |-> m.favorite_ingredients,
     favorite_cocktails   |-> m.favorite_cocktails,
     conversation_history |-> m.conversation_history]

\* the profile file: absent, truncated or partly written (not valid JSON),
\* or a complete JSON document
NoFile        == [state |-> "absent",  data |-> EmptyProfile]
PartialFile   == [state |-> "partial", data |-> EmptyProfile]
JsonFile(d)   == [state |-> "json",    data |-> d]

_save_memory(m) == [m EXCEPT !.writes = Append(@, Profile(m))]

\* a variant that keeps the newest favorite ingredient only
add_favorite_ingredient_only(m, ingredient) ==
    _save_memory([m EXCEPT !.favorite_ingredients = {strip(lower(ingredient))}])

\* a variant that trims but keeps the caller's letter case
add_favorite_ingredient_keeps_case(m, ingredient) ==
    _save_memory([m EXCEPT !.favorite_ingredients = @ \cup {strip(ingredient)}])

add_favorite_ingredient(m, ingredient) ==
    _save_memory([m EXCEPT !.favorite_ingredients = @ \cup {strip(lower(ingredient))}])

\* a variant that looks the ingredient up as given, without normalizing it
remove_favorite_ingredient_as_given(m, ingredient) ==
    IF ingredient \in m.favorite_ingredients
    THEN [mem |-> _save_memory([m EXCEPT !.favorite_ingredients = @ \ {ingredient}]),
          ret |-> TRUE]
    ELSE [mem |-> m, ret |-> FALSE]

\* [mem, ret]: ret is True if the ingredient existed
remove_favorite_ingredient(m, ingredient) ==
    LET item == strip(lower(ingredient))
    IN  IF item \in m.favorite_ingredients
        THEN [mem |-> _save_memory([m EXCEPT !.favorite_ingredients = @ \ {item}]),
              ret |-> TRUE]
        ELSE [mem |-> m, ret |-> FALSE]

add_favorite_cocktail(m, cocktail) ==
    _save_memory([m EXCEPT !.favorite_cocktails = @ \cup {strip(cocktail)}])

\* a variant that removes the cocktail from the set and does not save
remove_favorite_cocktail_unsaved(m, cocktail) ==
    LET item == strip(cocktail)
    IN  IF item \in m.favorite_cocktails
        THEN [mem |-> [m EXCEPT !.favorite_cocktails = @ \ {item}], ret |-> TRUE]
        ELSE [mem |-> m, ret |-> FALSE]

remove_favorite_cocktail(m, cocktail) ==
    LET item == strip(cocktail)
    IN  IF item \in m.favorite_cocktails
        THEN [mem |-> _save_memory([m EXCEPT !.favorite_cocktails = @ \ {item}]),
              ret |-> TRUE]
        ELSE [mem |-> m, ret |-> FALSE]

\* conversation_history[-n:]
LastN(h, n) == IF Len(h) > n THEN SubSeq(h, Len(h) - n + 1, Len(h)) ELSE h

HistoryEntry(role, content, now) ==
    [role |-> role, content |-> content, timestamp |-> now]

\* a variant that keeps the oldest entries: conversation_history[:50]
add_to_conversation_history_keeps_oldest(m, role, content, now) ==
    LET appended == Append(m.conversation_history, HistoryEntry(role, content, now))
    IN  _save_memory([m EXCEPT !.conversation_history =
            IF Len(appended) > HISTORY_LIMIT
            THEN SubSeq(appended, 1, HISTORY_LIMIT) ELSE appended])

add_to_conversation_history(m, role, content, now) ==
    LET appended == Append(m.conversation_history, HistoryEntry(role, content, now))
    IN  _save_memory([m EXCEPT !.conversation_history =
            IF Len(appended) > HISTORY_LIMIT
            THEN LastN(appended, HISTORY_LIMIT) ELSE appended])

\* the loops of process_user_message: [mem, new]
RECURSIVE AddNewIngredients(_, _, _)
AddNewIngredients(m, detected, new) ==
    IF detected = <<>> THEN [mem |-> m, new |-> new]
    ELSE IF Head(detected) \notin m.favorite_ingredients
         THEN AddNewIngredients(add_favorite_ingredient(m, Head(detected)),
                                Tail(detected), Append(new, Head(detected)))
         ELSE AddNewIngredients(m, Tail(detected), new)

RECURSIVE AddNewCocktails(_, _, _)
AddNewCocktails(m, detected, new) ==
    IF detected = <<>> THEN [mem |-> m, new |-> new]
    ELSE IF Head(detected) \notin m.favorite_cocktails
         THEN AddNewCocktails(add_favorite_cocktail(m, Head(detected)),
                              Tail(detected), Append(new, Head(detected)))
         ELSE AddNewCocktails(m, Tail(detected), new)

\* a variant that reports every detected candidate, favorite already or not
process_user_message_reports_all(m, message, now) ==
    LET ing == AddNewIngredients(m, DetectedIngredients[message], <<>>)
        ckt == AddNewCocktails(ing.mem, DetectedCocktails[message], <<>>)
    IN  [mem |-> add_to_conversation_history(ckt.mem, "user", message, now),
         ret |-> [new_favorite_ingredients |-> DetectedIngredients[message],
                  new_favorite_cocktails   |-> DetectedCocktails[message]]]

\* [mem, ret]: ret is the dict of newly added favorites
process_user_message(m, message, now) ==
    LET ing == AddNewIngredients(m, DetectedIngredients[message], <<>>)
        ckt == AddNewCocktails(ing.mem, DetectedCocktails[message], <<>>)
    IN  [mem |-> add_to_conversation_history(ckt.mem, "user", message, now),
         ret |-> [new_favorite_ingredients |-> ing.new,
                  new_favorite_cocktails   |-> ckt.new]]

\* _load_memory on a fresh object: a complete file fills the fields, an
\* unreadable one is reported and the (empty) object is saved over it
_load_memory(m, file) ==
    CASE file.state = "absent"  -> m
      [] file.state = "json"    ->
            [m EXCEPT !.favorite_ingredients = file.data.favorite_ingredients,
                      !.favorite_cocktails   = file.data.favorite_cocktails,
                      !.conversation_history = file.data.conversation_history]
      [] file.state = "partial" -> _save_memory(m)

(***************************************************************************)
(* CocktailDataProcessor (app/utils/data_processor.py).  cocktails_df is   *)
(* the frame after _clean_data; a frame selected from it is the sequence   *)
(* of its row positions, in corpus order.                                  *)
(***************************************************************************)
cocktails_df == <<
    [name |-> "Mojito", ingredients |-> "white rum, lime juice, mint, sugar",
     ingredients_list |-> <<"white rum", "lime juice", "mint", "sugar">>,
     is_alcoholic |-> TRUE],
    [name |-> "Virgin Mojito", ingredients |-> "lime juice, mint, sugar (non-alcoholic)",
     ingredients_list |-> <<"lime juice", "mint", "sugar">>,
     is_alcoholic |-> FALSE],
    [name |-> "Gin Fizz", ingredients |-> "gin, lemon juice, sugar",
     ingredients_list |-> <<"gin", "lemon juice", "sugar">>,
     is_alcoholic |-> TRUE],
    [name |-> "Margarita", ingredients |-> "tequila, lime juice, triple sec",
     ingredients_list |-> <<"tequila", "lime juice", "triple sec">>,
     is_alcoholic |-> TRUE],
    [name |-> "Lemonade", ingredients |-> "lemon juice, mint, water (alcohol-free)",
     ingredients_list |-> <<"lemon juice", "mint", "water">>,
     is_alcoholic |-> FALSE] >>

Rows == 1..Len(cocktails_df)

\* the rows of a set of positions, in corpus order
RECURSIVE FrameFrom(_, _)
FrameFrom(keep, i) ==
    IF i > Len(cocktails_df) THEN <<>>
    ELSE (IF i \in keep THEN <<i>> ELSE <<>>) \o FrameFrom(keep, i + 1)

Frame(keep) == FrameFrom(keep, 1)

Names(frame) == [k \in 1..Len(frame) |-> cocktails_df[frame[k]].name]

get_cocktails_containing(ingredient) ==
    Bind(lower(ingredient), LAMBDA needle :
        Frame({r \in Rows :
                 \E k \in 1..Len(cocktails_df[r].ingredients_list) :
                     Contains(cocktails_df[r].ingredients_list[k], needle)}))

\* matching_cocktails[~matching_cocktails["is_alcoholic"]]
NonAlcoholic(frame) == Frame({r \in Range(frame) : ~cocktails_df[r].is_alcoholic})

\* the corpus file as deployed, and after an edit that took its first record
\* out: the rows of cocktails_df each holds
Corpora == <<Rows, Rows \ {1}>>

\* the pattern matches text at position i: "." stands for any character but
\* a newline, every other character of the names looked up for itself
PatternAt(text, i, pattern) ==
    /\ i + Len(pattern) - 1 <= Len(text)
    /\ \A k \in 1..Len(pattern) :
          IF Ch(pattern, k) = "." THEN Ch(text, i + k - 1) # "\n"
          ELSE Ch(pattern, k) = Ch(text, i + k - 1)

\* Series.str.contains(pattern, case=False) on one lowercased value: a
\* regular-expression search
str_contains(text, pattern) ==
    \E i \in 1..(Len(text) + 1) : PatternAt(text, i, pattern)

\* re.compile(pattern) raises re.error: an opening parenthesis is never closed
PatternError(pattern) ==
    \E k \in 1..Len(pattern) :
        /\ Ch(pattern, k) = "("
        /\ \A j \in (k + 1)..Len(pattern) : Ch(pattern, j) # ")"

\* a variant that returns the first record containing the name
get_cocktail_by_name_in_fuzzy_only(rows, name) ==
    Bind(lower(name), LAMBDA n :
        Bind(Frame({r \in rows : str_contains(lower(cocktails_df[r].name), n)}),
             LAMBDA fuzzy : IF fuzzy # <<>> THEN <<fuzzy[1]>> ELSE <<>>))

\* get_cocktail_by_name on the corpus of these rows: <<>> is None, <<r>> the
\* row found
get_cocktail_by_name_in(rows, name) ==
    Bind(lower(name), LAMBDA n :
      Bind(Frame({r \in rows : lower(cocktails_df[r].name) = n}), LAMBDA exact :
        IF exact # <<>> THEN <<exact[1]>>
        ELSE Bind(Frame({r \in rows : str_contains(lower(cocktails_df[r].name), n)}),
                  LAMBDA fuzzy : IF fuzzy # <<>> THEN <<fuzzy[1]>> ELSE <<>>)))

\* get_cocktail_by_name raises: no exact match, and the name is no pattern
get_cocktail_by_name_raises(rows, name) ==
    /\ \A r \in rows : lower(cocktails_df[r].name) # lower(name)
    /\ PatternError(lower(name))

get_cocktail_by_name(name) == get_cocktail_by_name_in(Rows, name)

\* get_cocktails_containing on the corpus of these rows
get_cocktails_containing_in(rows, ingredient) ==
    Frame(Range(get_cocktails_containing(ingredient)) \cap rows)

\* left.merge(right, how="inner"): the join keys are all the columns, and
\* ingredients_list, a column of lists, cannot be hashed for the join; an
\* empty side is answered before any key is hashed
merge(left, right) ==
    IF left = <<>> \/ right = <<>> THEN [raised |-> FALSE, frame |-> <<>>]
    ELSE [raised |-> TRUE, frame |-> <<>>]

(***************************************************************************)
(* VectorDatabase (app/core/vectordb.py).  The embedding model and the     *)
(* nearest-neighbour index are opaque: a search is answered with some      *)
(* ranking of the stored vectors, nearest first.                           *)
(***************************************************************************)
Rankings == {<<1, 2, 3, 4, 5>>, <<3, 5, 1, 4, 2>>}

\* index.search(embedding, top_k): 0-based positions, -1 where there is none
Indices(ranking, top_k) ==
    [i \in 1..top_k |-> IF i <= Len(ranking) THEN ranking[i] - 1 ELSE -1]

\* cocktail_data[idx], a Python list index
ListIndex(idx) == IF idx >= 0 THEN idx + 1 ELSE Len(cocktails_df) + idx + 1

RECURSIVE SearchResults(_, _)
SearchResults(indices, i) ==
    IF i > Len(indices) THEN <<>>
    ELSE (IF indices[i] < Len(cocktails_df) THEN <<ListIndex(indices[i])>> ELSE <<>>)
         \o SearchResults(indices, i + 1)

search_cocktails(ranking, top_k) == SearchResults(Indices(ranking, top_k), 1)

get_similar_cocktails(cocktail_name, ranking) ==
    IF get_cocktail_by_name(cocktail_name) = <<>> THEN <<>>
    ELSE search_cocktails(ranking, 5)

get_cocktails_with_ingredients(ranking) == search_cocktails(ranking, 5)

(***************************************************************************)
(* RAGSystem's query processors (app/core/rag.py).  A processor is run up  *)
(* to its call of the generation collaborator, if it makes one; its        *)
(* outcome says how it went:                                               *)
(*   kind    "return" (a reply without generation), "generate" (the        *)
(*           collaborator is called with `context`) or "raise"             *)
(*   text    the reply returned, or the exception raised                   *)
(*   events  what it did, in order: "retrieve" (corpus or vector lookup),  *)
(*           "detect" (process_user_message)                               *)
(*   mem     the profile object afterwards                                 *)
(*   then    what follows a generated reply                                *)
(***************************************************************************)
RECURSIVE Join(_, _)
Join(items, sep) ==
    IF items = <<>> THEN ""
    ELSE IF Len(items) = 1 THEN items[1]
    ELSE items[1] \o sep \o Join(Tail(items), sep)

\* items[:n]
FirstN(items, n) == SubSeq(items, 1, Min({n, Len(items)}))

\* the facts rendered into the context of a system prompt
NoContext ==
    [kind |-> "none", names |-> <<>>, ingredients |-> <<>>, about |-> "",
     found |-> 0, favorite_ingredients |-> {}, favorite_cocktails |-> {}]

Returns(text, events, m) ==
    [kind |-> "return", text |-> text, events |-> events, context |-> NoContext,
     mem |-> m, then |-> "return"]

Generates(context, events, m, then) ==
    [kind |-> "generate", text |-> "", events |-> events, context |-> context,
     mem |-> m, then |-> then]

Raises(error, events, m) ==
    [kind |-> "raise", text |-> error, events |-> events, context |-> NoContext,
     mem |-> m, then |-> "raise"]

CLARIFY_INGREDIENTS ==
    "I couldn't identify which ingredients you're asking about. Could you specify which ingredients you're interested in?"
CLARIFY_COCKTAIL ==
    "I couldn't identify which cocktail you're asking about. Could you specify the name of the cocktail?"
ASK_FAVORITES ==
    "I don't have any information about your favorite ingredients yet. Would you like to tell me what ingredients you enjoy?"

NotFoundIngredients(ingredients) ==
    "I couldn't find any cocktails containing " \o Join(ingredients, ", ")
        \o ". Would you like to try different ingredients?"
NotFoundCocktail(cocktail_name) ==
    "I couldn't find information about " \o cocktail_name
        \o ". Could you check the spelling or try a different cocktail?"
NotFoundSimilar(cocktail_name) ==
    "I couldn't find " \o cocktail_name
        \o " or any similar cocktails. Could you check the spelling or try a different cocktail?"

DIGITS == {"0", "1", "2", "3", "4", "5", "6", "7", "8", "9"}

DigitValue(c) ==
    CASE c = "0" -> 0 [] c = "1" -> 1 [] c = "2" -> 2 [] c = "3" -> 3 [] c = "4" -> 4
      [] c = "5" -> 5 [] c = "6" -> 6 [] c = "7" -> 7 [] c = "8" -> 8 [] c = "9" -> 9

\* int(digits), read up to position i
RECURSIVE IntUpTo(_, _)
IntUpTo(digits, i) ==
    IF i = 0 THEN 0 ELSE 10 * IntUpTo(digits, i - 1) + DigitValue(Ch(digits, i))

\* the first position from i on that holds none of the characters of class
RunEnd(s, i, class) ==
    Min({j \in i..(Len(s) + 1) : j = Len(s) + 1 \/ Ch(s, j) \notin class})

\* where (\d+)\s+cocktails matches, case ignored
LimitHits(s, low) ==
    {i \in 1..Len(s) :
        /\ Ch(s, i) \in DIGITS
        /\ RunEnd(s, RunEnd(s, i, DIGITS), WHITESPACE) > RunEnd(s, i, DIGITS)
        /\ StartsWithAt(low, RunEnd(s, RunEnd(s, i, DIGITS), WHITESPACE), "cocktails")}

DEFAULT_LIMIT == 5

\* limit = 5, or the number in front of "cocktails"
QueryLimit(query) ==
    Bind(LimitHits(query, lower(query)), LAMBDA hits :
        IF hits = {} THEN DEFAULT_LIMIT
        ELSE Bind(SubSeq(query, Min(hits), RunEnd(query, Min(hits), DIGITS) - 1),
                  LAMBDA digits : IntUpTo(digits, Len(digits))))

\* result_df after the loop of merges over relevant_cocktails[1:]
RECURSIVE MergeFrom(_, _, _)
MergeFrom(result, relevant, k) ==
    IF k > Len(relevant) \/ result.raised THEN result
    ELSE MergeFrom(merge(result.frame, relevant[k]), relevant, k + 1)

process_ingredient_query(query, m) ==
    LET ingredients == ExtractedIngredients[query]
        is_non_alcoholic ==
            \/ Contains(lower(query), "non-alcoholic")
            \/ Contains(lower(query), "non alcoholic")
        relevant_cocktails ==
            [k \in 1..Len(ingredients) |->
                IF is_non_alcoholic
                THEN NonAlcoholic(get_cocktails_containing(ingredients[k]))
                ELSE get_cocktails_containing(ingredients[k])]
        result_df ==
            MergeFrom([raised |-> FALSE, frame |-> relevant_cocktails[1]],
                      relevant_cocktails, 2)
        limit == QueryLimit(query)
    IN  IF ingredients = <<>> THEN Returns(CLARIFY_INGREDIENTS, <<>>, m)
        ELSE IF result_df.raised THEN Raises("TypeError", <<"retrieve">>, m)
        ELSE IF result_df.frame # <<>>
        THEN Generates([NoContext EXCEPT
                            !.kind = "ingredient_query",
                            !.names = FirstN(Names(result_df.frame), limit),
                            !.ingredients = ingredients,
                            !.found = Len(result_df.frame)],
                       <<"retrieve">>, m, "assistant")
        ELSE Returns(NotFoundIngredients(ingredients), <<"retrieve">>, m)

\* a variant without the early return on a missing name
process_cocktail_query_no_guard(query, m) ==
    LET cocktail_name == ExtractedCocktail[query]
        wanted == IF cocktail_name = <<>> THEN "" ELSE cocktail_name[1]
        cocktail == get_cocktail_by_name(wanted)
    IN  IF cocktail # <<>>
        THEN Generates([NoContext EXCEPT
                            !.kind = "cocktail_query",
                            !.names = <<cocktails_df[cocktail[1]].name>>,
                            !.about = wanted],
                       <<"retrieve">>, m, "assistant")
        ELSE Returns(NotFoundCocktail(wanted), <<"retrieve">>, m)

process_cocktail_query(query, m) ==
    LET cocktail_name == ExtractedCocktail[query]
        cocktail == get_cocktail_by_name(cocktail_name[1])
    IN  IF cocktail_name = <<>> \/ cocktail_name = <<"">>
        THEN Returns(CLARIFY_COCKTAIL, <<>>, m)
        ELSE IF get_cocktail_by_name_raises(Rows, cocktail_name[1])
        THEN Raises("re.error", <<"retrieve">>, m)
        ELSE IF cocktail # <<>>
        THEN Generates([NoContext EXCEPT
                            !.kind = "cocktail_query",
                            !.names = <<cocktails_df[cocktail[1]].name>>,
                            !.about = cocktail_name[1]],
                       <<"retrieve">>, m, "assistant")
        ELSE Returns(NotFoundCocktail(cocktail_name[1]), <<"retrieve">>, m)

SAMPLE_SIZE == 5

\* the names a similar-to context lists: similar_cocktails[:5] without the
\* records named like cocktail_name
ListedSimilar(similar_cocktails, cocktail_name) ==
    Names(SelectSeq(FirstN(similar_cocktails, 5),
                    LAMBDA r : lower(cocktails_df[r].name) # lower(cocktail_name)))

\* a variant that looks for a cocktail name before it looks for a request
\* from the favorites
process_recommendation_query_name_first(query, m, ranking) ==
    LET cocktail_name == ExtractedCocktail[query]
        query_lower == lower(query)
        similar_cocktails == get_similar_cocktails(cocktail_name[1], ranking)
    IN  IF cocktail_name # <<>> /\ cocktail_name # <<"">>
        THEN IF similar_cocktails = <<>>
             THEN Returns(NotFoundSimilar(cocktail_name[1]), <<"retrieve">>, m)
             ELSE Generates([NoContext EXCEPT
                                !.kind = "similar",
                                !.names = ListedSimilar(similar_cocktails, cocktail_name[1]),
                                !.about = cocktail_name[1]],
                            <<"retrieve">>, m, "assistant")
        ELSE IF \/ Contains(query_lower, "favorite")
                \/ Contains(query_lower, "favourites")
                \/ Contains(query_lower, "prefer")
        THEN IF m.favorite_ingredients = {}
             THEN Returns(ASK_FAVORITES, <<>>, m)
             ELSE Generates([NoContext EXCEPT
                                !.kind = "favorites",
                                !.names = Names(FirstN(get_cocktails_with_ingredients(ranking), 5)),
                                !.favorite_ingredients = m.favorite_ingredients],
                            <<"retrieve">>, m, "assistant")
        ELSE Generates([NoContext EXCEPT
                            !.kind = "popular",
                            !.names = Names(FirstN(ranking, SAMPLE_SIZE))],
                       <<"retrieve">>, m, "assistant")

process_recommendation_query(query, m, ranking) ==
    LET cocktail_name == ExtractedCocktail[query]
        query_lower == lower(query)
        similar_cocktails == get_similar_cocktails(cocktail_name[1], ranking)
    IN  IF \/ Contains(query_lower, "favorite")
           \/ Contains(query_lower, "favourites")
           \/ Contains(query_lower, "prefer")
        THEN IF m.favorite_ingredients = {}
             THEN Returns(ASK_FAVORITES, <<>>, m)
             ELSE Generates([NoContext EXCEPT
                                !.kind = "favorites",
                                !.names = Names(FirstN(get_cocktails_with_ingredients(ranking), 5)),
                                !.favorite_ingredients = m.favorite_ingredients],
                            <<"retrieve">>, m, "assistant")
        ELSE IF cocktail_name # <<>> /\ cocktail_name # <<"">>
        THEN IF get_cocktail_by_name_raises(Rows, cocktail_name[1])
             THEN Raises("re.error", <<"retrieve">>, m)
             ELSE IF similar_cocktails = <<>>
             THEN Returns(NotFoundSimilar(cocktail_name[1]), <<"retrieve">>, m)
             ELSE Generates([NoContext EXCEPT
                                !.kind = "similar",
                                !.names = ListedSimilar(similar_cocktails, cocktail_name[1]),
                                !.about = cocktail_name[1]],
                            <<"retrieve">>, m, "assistant")
        ELSE IF Len(cocktails_df) < SAMPLE_SIZE
        THEN Raises("ValueError", <<"retrieve">>, m)
        ELSE Generates([NoContext EXCEPT
                            !.kind = "popular",
                            !.names = Names(FirstN(ranking, SAMPLE_SIZE))],
                       <<"retrieve">>, m, "assistant")

GENERAL_TOP_K == 3

process_general_query(query, m, ranking) ==
    Generates([NoContext EXCEPT
                  !.kind = "general",
                  !.names = Names(search_cocktails(ranking, GENERAL_TOP_K)),
                  !.favorite_ingredients = m.favorite_ingredients],
              <<"retrieve">>, m, "detect_assistant")

\* a variant whose fallback calls the generation collaborator itself before
\* it hands over to process_general_query
process_preference_query_generates_twice(query, m, now, ranking) ==
    LET query_lower == lower(query)
        preference_result == process_user_message(m, query, now)
        general == process_general_query(query, preference_result.mem, ranking)
    IN  IF Contains(query_lower, "what are my") \/ Contains(query_lower, "tell me my")
        THEN Generates([NoContext EXCEPT
                            !.kind = "recall",
                            !.favorite_ingredients = m.favorite_ingredients,
                            !.favorite_cocktails = m.favorite_cocktails],
                       <<>>, m, "assistant")
        ELSE [general EXCEPT !.events = <<"detect", "generate">> \o @]

process_preference_query(query, m, now, ranking) ==
    LET query_lower == lower(query)
        preference_result == process_user_message(m, query, now)
        general == process_general_query(query, preference_result.mem, ranking)
    IN  IF Contains(query_lower, "what are my") \/ Contains(query_lower, "tell me my")
        THEN Generates([NoContext EXCEPT
                            !.kind = "recall",
                            !.favorite_ingredients = m.favorite_ingredients,
                            !.favorite_cocktails = m.favorite_cocktails],
                       <<>>, m, "assistant")
        ELSE IF \/ preference_result.ret.new_favorite_ingredients # <<>>
                \/ preference_result.ret.new_favorite_cocktails # <<>>
        THEN Generates([NoContext EXCEPT
                            !.kind = "updated_preferences",
                            !.ingredients = preference_result.ret.new_favorite_ingredients,
                            !.names = preference_result.ret.new_favorite_cocktails],
                       <<"detect">>, preference_result.mem, "assistant")
        ELSE [general EXCEPT !.events = <<"detect">> \o @]

\* a variant that records the reply before it processes the message again
after_generation_reply_first(then, query, m, response, now) ==
    IF then = "detect_assistant"
    THEN process_user_message(add_to_conversation_history(m, "assistant", response, now),
                              query, now + 1).mem
    ELSE add_to_conversation_history(m, "assistant", response, now)

\* what a processor does with the generated reply
after_generation(then, query, m, response, now) ==
    IF then = "detect_assistant"
    THEN add_to_conversation_history(process_user_message(m, query, now).mem,
                                     "assistant", response, now + 1)
    ELSE add_to_conversation_history(m, "assistant", response, now)

(***************************************************************************)
(* State.                                                                  *)
(***************************************************************************)
VARIABLES
    clock,      \* datetime.now(), counted in appended history entries
    um,         \* one UserMemory object driven call by call
    um_file,    \* its profile file
    log,        \* every history entry ever appended to um, oldest first
    last,       \* the latest call on um: what was called and what it returned
    prev,       \* the call before it
    nops,       \* calls made on um so far
    dir_exists, \* USER_MEMORY_PATH exists
    disk,       \* the profile files, by file name
    disk0,      \* the profile files when the server started
    pc,         \* where each worker is in the request it serves
    req,        \* the ChatMessage each worker serves
    mem,        \* the UserMemory object of each worker's request
    loaded,     \* the file each worker's _load_memory found, and how the load went
    resume,     \* where a worker goes on once its pending saves are written
    fd,         \* each worker's handle on the profile file it is writing
    trace,      \* what each worker's request has done so far, in order
    query_type, \* the intent identify_query_type returned to each worker
    first,      \* what the process_user_message call of generate_response returned
    call,       \* the outcome of each worker's query processor
    resp,       \* the response each worker sent last
    received,   \* requests received so far
    asked,      \* the messages received for each user
    calls,      \* the identify_query_type calls made directly, oldest first
    probe,      \* the latest direct call of an extractor, a lookup or a search
    csv,        \* which contents the corpus file holds
    proc,       \* where the server process is in its startup, or "serving"
    df,         \* the corpus the module-level data_processor loaded
    artifacts,  \* the persisted index and metadata file of each pair
    vdb,        \* the index and metadata list of each pair, in memory
    csv_reads,  \* the phases in which the corpus file has been read
    interrupted \* a build was cut between its two writes

mem_vars == <<um, um_file, log, last, prev, nops>>

boot_vars == <<csv, proc, df, artifacts, vdb, csv_reads, interrupted>>

store_vars == <<probe, boot_vars>>

req_vars == <<dir_exists, disk, disk0, pc, req, mem, loaded, resume, fd, trace,
              query_type, first, call, resp, received, asked>>

Workers == {1, 2}
Users   == {"alice", "bob"}

\* a variant with one file for every user
user_memory_file_shared(user_id) == "default_user" \o "_memory.json"

\* memory_path / f"{user_id}_memory.json"
user_memory_file(user_id) == user_id \o "_memory.json"

Files == {user_memory_file(u) : u \in Users}

NoRequest  == [path |-> "", user_id |-> "", message |-> ""]
NoResult   ==
    [new_favorite_ingredients |-> <<>>, new_favorite_cocktails |-> <<>>]
NoOutcome  == [kind |-> "none", text |-> "", context |-> NoContext, then |-> "none"]
NoResponse ==
    [status |-> 0, response |-> "", error |-> "",
     detected_preferences |-> [ingredients |-> <<>>, cocktails |-> <<>>],
     favorite_ingredients |-> {}, favorite_cocktails |-> {}]
NoLoad     == [file |-> NoFile, failed |-> FALSE]

\* no worker has anything in hand
WorkersIdle ==
    /\ pc = [w \in Workers |-> "idle"]
    /\ req = [w \in Workers |-> NoRequest]
    /\ mem = [w \in Workers |-> NewUserMemory]
    /\ loaded = [w \in Workers |-> NoLoad]
    /\ resume = [w \in Workers |-> "idle"]
    /\ fd = [w \in Workers |-> "closed"]
    /\ trace = [w \in Workers |-> <<>>]
    /\ query_type = [w \in Workers |-> ""]
    /\ first = [w \in Workers |-> NoResult]
    /\ call = [w \in Workers |-> NoOutcome]
    /\ resp = [w \in Workers |-> NoResponse]
    /\ received = 0
    /\ asked = [u \in Users |-> {}]

\* no server
NoServer ==
    /\ dir_exists = TRUE
    /\ disk = [f \in Files |-> NoFile]
    /\ disk0 = disk
    /\ WorkersIdle

\* the two index/metadata pairs of VectorDatabase
Pairs == {"cocktail", "ingredient"}

NoProbe == [op |-> "none"]
NoArtifact == [exists |-> FALSE, items |-> <<>>]
NoArtifacts == [pair \in Pairs |-> [index |-> NoArtifact, data |-> NoArtifact]]
NoIndexes == [pair \in Pairs |-> [index |-> <<>>, data |-> <<>>]]

\* no process started, nothing persisted, nothing called
StoreIdle ==
    /\ probe = NoProbe
    /\ csv = 1
    /\ proc = [step |-> "down", pair |-> ""]
    /\ df = 0
    /\ artifacts = NoArtifacts
    /\ vdb = NoIndexes
    /\ csv_reads = {}
    /\ interrupted = FALSE

(***************************************************************************)
(* One profile object, any sequence of method calls (SpecMemory).          *)
(***************************************************************************)
MaxOps == 3
MaxPrefillSlack == 1

RawIngredients == {"Gin ", "gin", "LIME"}
RawCocktails   == {"Mojito", " Mojito", "mojito"}
HistoryContents == {"hello"}
Roles == {"user", "assistant"}

\* a history left in the file by n earlier appends
Prefill(n) == [k \in 1..n |-> HistoryEntry("user", "hello", k)]

\* the files the object may be constructed from: none, or a profile whose
\* history is empty, nearly full or full
PrefillLengths ==
    {0} \cup {n \in (HISTORY_LIMIT - MaxPrefillSlack)..HISTORY_LIMIT : n >= 0}

NoCall ==
    [op |-> "none", arg |-> "", before |-> EmptyProfile, removed |-> FALSE,
     new_favorite_ingredients |-> <<>>, new_favorite_cocktails |-> <<>>]

Call(op, arg, before, removed, ni, nc) ==
    [op |-> op, arg |-> arg, before |-> before, removed |-> removed,
     new_favorite_ingredients |-> ni, new_favorite_cocktails |-> nc]

\* the file after the object's pending writes, none of which fails
Flushed(file, m) ==
    IF m.writes = <<>> THEN file ELSE JsonFile(m.writes[Len(m.writes)])

\* the state after a call that left the object as m
MemoryDone(m, made, appended) ==
    /\ um' = [m EXCEPT !.writes = <<>>]
    /\ um_file' = Flushed(um_file, m)
    /\ log' = log \o appended
    /\ clock' = clock + Len(appended)
    /\ prev' = last
    /\ last' = made
    /\ nops' = nops + 1
    /\ UNCHANGED <<req_vars, calls, store_vars>>

MemAddFavoriteIngredient ==
    \E x \in RawIngredients :
        /\ nops < MaxOps
        /\ MemoryDone(add_favorite_ingredient(um, x),
                      Call("add_favorite_ingredient", x, Profile(um), FALSE, <<>>, <<>>),
                      <<>>)

MemRemoveFavoriteIngredient ==
    \E x \in RawIngredients :
        /\ nops < MaxOps
        /\ LET r == remove_favorite_ingredient(um, x)
           IN  MemoryDone(r.mem,
                          Call("remove_favorite_ingredient", x, Profile(um), r.ret, <<>>, <<>>),
                          <<>>)

MemAddFavoriteCocktail ==
    \E x \in RawCocktails :
        /\ nops < MaxOps
        /\ MemoryDone(add_favorite_cocktail(um, x),
                      Call("add_favorite_cocktail", x, Profile(um), FALSE, <<>>, <<>>),
                      <<>>)

MemRemoveFavoriteCocktail ==
    \E x \in RawCocktails :
        /\ nops < MaxOps
        /\ LET r == remove_favorite_cocktail(um, x)
           IN  MemoryDone(r.mem,
                          Call("remove_favorite_cocktail", x, Profile(um), r.ret, <<>>, <<>>),
                          <<>>)

MemAddToConversationHistory ==
    \E role \in Roles, content \in HistoryContents :
        /\ nops < MaxOps
        /\ MemoryDone(add_to_conversation_history(um, role, content, clock + 1),
                      Call("add_to_conversation_history", content, Profile(um), FALSE, <<>>, <<>>),
                      <<HistoryEntry(role, content, clock + 1)>>)

MemProcessUserMessage ==
    \E message \in MemoryMessages :
        /\ nops < MaxOps
        /\ LET r == process_user_message(um, message, clock + 1)
           IN  MemoryDone(r.mem,
                          Call("process_user_message", message, Profile(um), FALSE,
                               r.ret.new_favorite_ingredients,
                               r.ret.new_favorite_cocktails),
                          <<HistoryEntry("user", message, clock + 1)>>)

InitMemory ==
    /\ \E n \in PrefillLengths, present \in BOOLEAN :
          /\ um_file = IF present
                       THEN JsonFile([EmptyProfile EXCEPT !.conversation_history = Prefill(n)])
                       ELSE NoFile
          /\ present \/ n = 0
          /\ clock = n
    /\ um = _load_memory(NewUserMemory, um_file)
    /\ log = um.conversation_history
    /\ last = NoCall
    /\ prev = NoCall
    /\ nops = 0
    /\ NoServer
    /\ calls = <<>>
    /\ StoreIdle

NextMemory ==
    \/ MemAddFavoriteIngredient
    \/ MemRemoveFavoriteIngredient
    \/ MemAddFavoriteCocktail
    \/ MemRemoveFavoriteCocktail
    \/ MemAddToConversationHistory
    \/ MemProcessUserMessage

vars == <<clock, mem_vars, req_vars, calls, store_vars>>

SpecMemory == InitMemory /\ [][NextMemory]_vars

(***************************************************************************)
(* Properties of one profile object (checked under SpecMemory).            *)
(***************************************************************************)
\* the candidates of a detected list that are absent from `have`, each once,
\* in the order they are first met
FirstNew(detected, have) ==
    LET idx == {k \in 1..Len(detected) :
                   /\ detected[k] \notin have
                   /\ \A j \in 1..(k - 1) : detected[j] # detected[k]}
        Pick(done) == Min(idx \ done)
        F[n \in 0..Cardinality(idx)] ==
            IF n = 0 THEN [seq |-> <<>>, done |-> {}]
            ELSE [seq  |-> Append(F[n - 1].seq, detected[Pick(F[n - 1].done)]),
                  done |-> F[n - 1].done \cup {Pick(F[n - 1].done)}]
    IN  F[Cardinality(idx)].seq

\* C1: after any sequence of appends the conversation history holds at most
\* 50 entries, and they are the most recently appended entries, in the order
\* they were appended (the oldest are evicted first).
C1_HistoryBound ==
    /\ Len(um.conversation_history) <= HISTORY_LIMIT
    /\ um.conversation_history = LastN(log, HISTORY_LIMIT)

C1_Witness ==
    /\ last.op = "add_to_conversation_history"
    /\ Len(log) > HISTORY_LIMIT
    /\ Len(um.conversation_history) = HISTORY_LIMIT

\* C4: process_user_message reports as newly added exactly the detected
\* candidates that were not favorites when they were reached, each at most
\* once, and afterwards the favorite sets are the prior sets united with the
\* detected candidates; when every detected ingredient is a favorite already
\* it reports none and leaves the favorite ingredients unchanged.
C4_NewlyAdded ==
    last.op = "process_user_message" =>
        LET di == DetectedIngredients[last.arg]
            dc == DetectedCocktails[last.arg]
        IN  /\ last.new_favorite_ingredients =
                   FirstNew(di, last.before.favorite_ingredients)
            /\ last.new_favorite_cocktails =
                   FirstNew(dc, last.before.favorite_cocktails)
            /\ um.favorite_ingredients =
                   last.before.favorite_ingredients \cup Range(di)
            /\ um.favorite_cocktails =
                   last.before.favorite_cocktails \cup Range(dc)
            /\ (Range(di) \subseteq last.before.favorite_ingredients =>
                   /\ last.new_favorite_ingredients = <<>>
                   /\ um.favorite_ingredients = last.before.favorite_ingredients)

C4_Witness ==
    /\ last.op = "process_user_message"
    /\ DetectedIngredients[last.arg] # <<>>
    /\ Range(DetectedIngredients[last.arg])
           \subseteq last.before.favorite_ingredients
    /\ last.new_favorite_ingredients = <<>>

AddThenRemoveIngredient ==
    /\ prev.op = "add_favorite_ingredient"
    /\ last.op = "remove_favorite_ingredient"
    /\ last.arg = prev.arg

AddThenRemoveCocktail ==
    /\ prev.op = "add_favorite_cocktail"
    /\ last.op = "remove_favorite_cocktail"
    /\ last.arg = prev.arg

\* C5 as stated: for any favorite set and any item, adding the item and then
\* removing the same item restores the prior favorite set exactly.
C5_AddRemoveRestores ==
    /\ AddThenRemoveIngredient =>
           um.favorite_ingredients = prev.before.favorite_ingredients
    /\ AddThenRemoveCocktail =>
           um.favorite_cocktails = prev.before.favorite_cocktails

\* C5 (amended): adding an item and then removing the same item restores the
\* prior favorite set exactly when the item, as stored (lowercased and trimmed
\* for an ingredient, trimmed for a cocktail), was not in the set before the
\* add; when it was, the pair leaves the prior set without that item.
C5_AddRemoveRestoresIfAbsent ==
    /\ AddThenRemoveIngredient =>
           LET item == lower(strip(prev.arg))
               was  == prev.before.favorite_ingredients
           IN  um.favorite_ingredients = IF item \in was THEN was \ {item} ELSE was
    /\ AddThenRemoveCocktail =>
           LET item == strip(prev.arg)
               was  == prev.before.favorite_cocktails
           IN  um.favorite_cocktails = IF item \in was THEN was \ {item} ELSE was

C5_Witness ==
    /\ AddThenRemoveIngredient
    /\ prev.arg = "Gin "
    /\ prev.before.favorite_ingredients = {"lime"}
    /\ um.favorite_ingredients = {"lime"}

\* C6: favorite ingredients are stored lowercased and trimmed: two adds of
\* strings that are equal once lowercased and trimmed leave exactly one entry
\* for them, the normalized string, and from an empty profile every member
\* of the favorite-ingredient set is its own normalization after any calls.
C6_NormalizedIngredients ==
    /\ \A x \in um.favorite_ingredients : lower(strip(x)) = x
    /\ ( /\ prev.op = "add_favorite_ingredient"
         /\ last.op = "add_favorite_ingredient"
         /\ lower(strip(prev.arg)) = lower(strip(last.arg)) ) =>
           /\ {x \in um.favorite_ingredients :
                  lower(strip(x)) = lower(strip(last.arg))} = {lower(strip(last.arg))}
           /\ um.favorite_ingredients =
                  prev.before.favorite_ingredients \cup {lower(strip(last.arg))}

C6_Witness ==
    /\ prev.op = "add_favorite_ingredient" /\ prev.arg = "Gin "
    /\ last.op = "add_favorite_ingredient" /\ last.arg = "gin"
    /\ um.favorite_ingredients = {"gin"}

(***************************************************************************)
(* The /chat route (app/api/routes.py), one request per worker at a time.  *)
(* A worker is a server process: the handler is a coroutine that never     *)
(* awaits, so the requests of one process run one after the other, and     *)
(* requests overlap only across processes, which share the directory of    *)
(* profile files and nothing else.                                         *)
(***************************************************************************)
MaxRequests == 2
MaxRequestsConc == 2

Replies == {"Cheers!"}

\* the statements of generate_response, in order
generate_response_classify_first == <<"classify", "detect", "dispatch">>

generate_response == <<"detect", "classify", "dispatch">>

StepAfter(step) ==
    generate_response[1 + CHOOSE k \in 1..Len(generate_response) : generate_response[k] = step]

\* the profiles a user may have on disk when the server starts
SeedProfile == [EmptyProfile EXCEPT !.favorite_ingredients = {"gin"}]
InitialFiles == {NoFile, JsonFile(SeedProfile)}

FileOf(w) == user_memory_file(req[w].user_id)

\* where the handler of w's request starts once get_user_memory has returned
Handler(w) ==
    IF req[w].path = "/preferences/remove" THEN "remove" ELSE generate_response[1]

\* worker w goes on to `next`, writing the pending saves of m first
Goto(w, m, next) ==
    /\ mem' = [mem EXCEPT ![w] = m]
    /\ IF m.writes = <<>>
       THEN /\ pc' = [pc EXCEPT ![w] = next]
            /\ UNCHANGED resume
       ELSE /\ pc' = [pc EXCEPT ![w] = "open"]
            /\ resume' = [resume EXCEPT ![w] = next]

\* the exception handler of app/main.py answers for an exception
Fail(w, error) ==
    /\ pc' = [pc EXCEPT ![w] = "idle"]
    /\ mem' = [mem EXCEPT ![w] = NewUserMemory]
    /\ loaded' = [loaded EXCEPT ![w] = NoLoad]
    /\ resp' = [resp EXCEPT ![w] = [NoResponse EXCEPT !.status = 500, !.error = error]]

Receive(w, users, messages, limit) ==
    /\ pc[w] = "idle"
    /\ received < limit
    /\ \E u \in users, message \in messages :
          /\ req' = [req EXCEPT ![w] =
                        [path |-> "/chat", user_id |-> u, message |-> message]]
          /\ asked' = [asked EXCEPT ![u] = @ \cup {message}]
    /\ received' = received + 1
    /\ pc' = [pc EXCEPT ![w] = "exists"]
    /\ trace' = [trace EXCEPT ![w] = <<>>]
    /\ query_type' = [query_type EXCEPT ![w] = ""]
    /\ first' = [first EXCEPT ![w] = NoResult]
    /\ call' = [call EXCEPT ![w] = NoOutcome]
    /\ resp' = [resp EXCEPT ![w] = NoResponse]
    /\ loaded' = [loaded EXCEPT ![w] = NoLoad]
    /\ UNCHANGED <<clock, mem_vars, dir_exists, disk, disk0, mem, resume, fd, calls,
                   store_vars>>

\* UserMemory.__init__: if not self.memory_path.exists()
CheckDir(w) ==
    /\ pc[w] = "exists"
    /\ pc' = [pc EXCEPT ![w] = IF dir_exists THEN "load" ELSE "makedirs"]
    /\ UNCHANGED <<clock, mem_vars, dir_exists, disk, disk0, loaded, req, mem, resume, fd, trace,
                   query_type, first, call, resp, received, asked, calls, store_vars>>

\* UserMemory.__init__: os.makedirs(self.memory_path)
MakeDirs(w) ==
    /\ pc[w] = "makedirs"
    /\ IF dir_exists
       THEN /\ Fail(w, "FileExistsError")
            /\ UNCHANGED dir_exists
       ELSE /\ dir_exists' = TRUE
            /\ pc' = [pc EXCEPT ![w] = "load"]
            /\ UNCHANGED <<mem, loaded, resp>>
    /\ UNCHANGED <<clock, mem_vars, disk, disk0, req, resume, fd, trace,
                   query_type, first, call, received, asked, calls, store_vars>>

\* UserMemory.__init__: self._load_memory()
Load(w) ==
    /\ pc[w] = "load"
    /\ Goto(w, _load_memory(NewUserMemory, disk[FileOf(w)]), Handler(w))
    /\ loaded' = [loaded EXCEPT ![w] = [file   |-> disk[FileOf(w)],
                                        failed |-> disk[FileOf(w)].state = "partial"]]
    /\ UNCHANGED <<clock, mem_vars, dir_exists, disk, disk0, req, fd, trace,
                   query_type, first, call, resp, received, asked, calls, store_vars>>

\* _save_memory: open(self.user_memory_file, 'w') empties the file
Open(w) ==
    /\ pc[w] = "open"
    /\ disk' = [disk EXCEPT ![FileOf(w)] = PartialFile]
    /\ fd' = [v \in Workers |->
                IF v = w THEN "open"
                ELSE IF fd[v] = "overwritten" /\ FileOf(v) = FileOf(w) THEN "open"
                ELSE fd[v]]
    /\ pc' = [pc EXCEPT ![w] = "dump"]
    /\ UNCHANGED <<clock, mem_vars, dir_exists, disk0, loaded, req, mem, resume, trace,
                   query_type, first, call, resp, received, asked, calls, store_vars>>

\* _save_memory: json.dump(data, f) and the close.  The bytes go to the
\* start of the file; what another handle wrote since this one was opened
\* stays behind them where it is longer, and the file is then no JSON text.
Dump(w) ==
    /\ pc[w] = "dump"
    /\ \E file \in {JsonFile(Head(mem[w].writes))}
                   \cup (IF fd[w] = "overwritten" THEN {PartialFile} ELSE {}) :
          disk' = [disk EXCEPT ![FileOf(w)] = file]
    /\ fd' = [v \in Workers |->
                IF v = w THEN "closed"
                ELSE IF fd[v] = "open" /\ FileOf(v) = FileOf(w) THEN "overwritten"
                ELSE fd[v]]
    /\ mem' = [mem EXCEPT ![w].writes = Tail(@)]
    /\ pc' = [pc EXCEPT ![w] = IF Len(mem[w].writes) > 1 THEN "open" ELSE resume[w]]
    /\ UNCHANGED <<clock, mem_vars, dir_exists, disk0, loaded, req, resume, trace,
                   query_type, first, call, resp, received, asked, calls, store_vars>>

\* generate_response: user_memory.process_user_message(query)
Detect(w) ==
    /\ pc[w] = "detect"
    /\ LET r == process_user_message(mem[w], req[w].message, clock + 1)
       IN  /\ Goto(w, r.mem, StepAfter("detect"))
           /\ first' = [first EXCEPT ![w] = r.ret]
    /\ clock' = clock + 1
    /\ trace' = [trace EXCEPT ![w] = Append(@, "detect")]
    /\ UNCHANGED <<mem_vars, dir_exists, disk, disk0, loaded, req, fd, query_type, call, resp,
                   received, asked, calls, store_vars>>

\* generate_response: query_type = self.identify_query_type(query)
Classify(w) ==
    /\ pc[w] = "classify"
    /\ query_type' = [query_type EXCEPT ![w] = Intent[req[w].message]]
    /\ trace' = [trace EXCEPT ![w] = Append(@, "classify")]
    /\ pc' = [pc EXCEPT ![w] = StepAfter("classify")]
    /\ UNCHANGED <<clock, mem_vars, dir_exists, disk, disk0, loaded, req, mem, resume, fd,
                   first, call, resp, received, asked, calls, store_vars>>

\* the processor generate_response hands the query to
Processor(w, ranking) ==
    CASE query_type[w] = "ingredient_query" ->
            process_ingredient_query(req[w].message, mem[w])
      [] query_type[w] = "cocktail_query" ->
            process_cocktail_query(req[w].message, mem[w])
      [] query_type[w] = "recommendation" ->
            process_recommendation_query(req[w].message, mem[w], ranking)
      [] query_type[w] = "preference" ->
            process_preference_query(req[w].message, mem[w], clock + 1, ranking)
      [] OTHER ->
            process_general_query(req[w].message, mem[w], ranking)

Detections(events) == Len(SelectSeq(events, LAMBDA e : e = "detect"))

\* generate_response: the processor, up to its generation call or its return
Dispatch(w) ==
    /\ pc[w] = "dispatch"
    /\ \E ranking \in Rankings :
        \E o \in {Processor(w, ranking)} :
            /\ trace' = [trace EXCEPT ![w] = @ \o o.events]
            /\ clock' = clock + Detections(o.events)
            /\ call' = [call EXCEPT ![w] = [kind |-> o.kind, text |-> o.text,
                                            context |-> o.context, then |-> o.then]]
            /\ IF o.kind = "raise"
               THEN Fail(w, o.text) /\ UNCHANGED resume
               ELSE /\ Goto(w, o.mem, IF o.kind = "generate" THEN "generate" ELSE "respond")
                    /\ UNCHANGED <<loaded, resp>>
    /\ UNCHANGED <<mem_vars, dir_exists, disk, disk0, req, fd, query_type, first,
                   received, asked, calls, store_vars>>

\* LLMManager.generate_response returns, and the processor finishes
Generate(w) ==
    /\ pc[w] = "generate"
    /\ \E response \in Replies :
          /\ Goto(w, after_generation(call[w].then, req[w].message, mem[w], response,
                                      clock + 1),
                  "respond")
          /\ call' = [call EXCEPT ![w].text = response]
    /\ clock' = clock + (IF call[w].then = "detect_assistant" THEN 2 ELSE 1)
    /\ trace' = [trace EXCEPT ![w] =
                    @ \o (IF call[w].then = "detect_assistant"
                          THEN <<"generate", "detect">> ELSE <<"generate">>)]
    /\ UNCHANGED <<mem_vars, dir_exists, disk, disk0, loaded, req, fd, query_type, first, resp,
                   received, asked, calls, store_vars>>

\* LLMManager.generate_response raises
GenerateFails(w) ==
    /\ pc[w] = "generate"
    /\ Fail(w, "GenerationError")
    /\ trace' = [trace EXCEPT ![w] = Append(@, "generate")]
    /\ UNCHANGED <<clock, mem_vars, dir_exists, disk, disk0, req, resume, fd, query_type,
                   first, call, received, asked, calls, store_vars>>

\* chat: the detected_preferences of the response, and the ChatResponse
Respond(w) ==
    /\ pc[w] = "respond"
    /\ resp' = [resp EXCEPT ![w] =
          [NoResponse EXCEPT
              !.status = 200,
              !.response = call[w].text,
              !.detected_preferences =
                 [ingredients |->
                     SelectSeq(DetectedIngredients[req[w].message],
                               LAMBDA x : x \in mem[w].favorite_ingredients),
                  cocktails |->
                     SelectSeq(DetectedCocktails[req[w].message],
                               LAMBDA x : x \in mem[w].favorite_cocktails)]]]
    /\ pc' = [pc EXCEPT ![w] = "idle"]
    /\ mem' = [mem EXCEPT ![w] = NewUserMemory]
    /\ UNCHANGED <<clock, mem_vars, dir_exists, disk, disk0, loaded, req, resume, fd, trace,
                   query_type, first, call, received, asked, calls, store_vars>>

\* the server starts: the directory may be missing; if it is there, each of
\* the users who will post may have a profile in it
InitServer(users) ==
    /\ clock = 0
    /\ um = NewUserMemory /\ um_file = NoFile /\ log = <<>>
    /\ last = NoCall /\ prev = NoCall /\ nops = 0
    /\ dir_exists \in BOOLEAN
    /\ disk \in [Files -> InitialFiles]
    /\ dir_exists \/ disk = [f \in Files |-> NoFile]
    /\ \A u \in Users \ users : disk[user_memory_file(u)] = NoFile
    /\ disk0 = disk
    /\ WorkersIdle
    /\ calls = <<>>
    /\ StoreIdle

(***************************************************************************)
(* Spec: one server process.                                               *)
(***************************************************************************)
OneWorker == {1}
ChatUsers == {"alice"}

Next ==
    \/ \E w \in OneWorker : Receive(w, ChatUsers, ChatMessages, MaxRequests)
    \/ \E w \in OneWorker : CheckDir(w)
    \/ \E w \in OneWorker : MakeDirs(w)
    \/ \E w \in OneWorker : Load(w)
    \/ \E w \in OneWorker : Open(w)
    \/ \E w \in OneWorker : Dump(w)
    \/ \E w \in OneWorker : Detect(w)
    \/ \E w \in OneWorker : Classify(w)
    \/ \E w \in OneWorker : Dispatch(w)
    \/ \E w \in OneWorker : Generate(w)
    \/ \E w \in OneWorker : GenerateFails(w)
    \/ \E w \in OneWorker : Respond(w)

Spec == InitServer(ChatUsers) /\ [][Next]_vars

(***************************************************************************)
(* SpecConc: two server processes over the same directory.                 *)
(***************************************************************************)
NextConc ==
    \/ \E w \in Workers : Receive(w, Users, ConcMessages, MaxRequestsConc)
    \/ \E w \in Workers : CheckDir(w)
    \/ \E w \in Workers : MakeDirs(w)
    \/ \E w \in Workers : Load(w)
    \/ \E w \in Workers : Open(w)
    \/ \E w \in Workers : Dump(w)
    \/ \E w \in Workers : Detect(w)
    \/ \E w \in Workers : Classify(w)
    \/ \E w \in Workers : Dispatch(w)
    \/ \E w \in Workers : Generate(w)
    \/ \E w \in Workers : GenerateFails(w)
    \/ \E w \in Workers : Respond(w)

SpecConc == InitServer(Users) /\ [][NextConc]_vars

(***************************************************************************)
(* SpecIO: one server process whose profile store may fail.  The read of   *)
(* an existing profile file, the open for writing and the dump may each    *)
(* raise IOError (OSError) at any time.  The process serves /chat and      *)
(* /preferences/remove.                                                    *)
(***************************************************************************)
IoMessages ==
    {"I love gin.", "My favorite ingredient is Lime!",
     "what are my favorite ingredients", "hello"}

RemovedIngredients == {"Gin ", "lime"}

\* POST /preferences/remove with ingredients = [ingredient] and no cocktails;
\* the ingredient is kept in the message field of the request
ReceiveRemove(w, users, limit) ==
    /\ pc[w] = "idle"
    /\ received < limit
    /\ \E u \in users, ingredient \in RemovedIngredients :
          req' = [req EXCEPT ![w] = [path |-> "/preferences/remove", user_id |-> u,
                                     message |-> ingredient]]
    /\ received' = received + 1
    /\ pc' = [pc EXCEPT ![w] = "exists"]
    /\ trace' = [trace EXCEPT ![w] = <<>>]
    /\ query_type' = [query_type EXCEPT ![w] = ""]
    /\ first' = [first EXCEPT ![w] = NoResult]
    /\ call' = [call EXCEPT ![w] = NoOutcome]
    /\ resp' = [resp EXCEPT ![w] = NoResponse]
    /\ loaded' = [loaded EXCEPT ![w] = NoLoad]
    /\ UNCHANGED <<clock, mem_vars, dir_exists, disk, disk0, mem, resume, fd, asked,
                   calls, store_vars>>

\* _load_memory: the file exists and open or json.load raises IOError; the
\* except branch runs, as it does for a file that does not parse
LoadFails(w) ==
    /\ pc[w] = "load"
    /\ disk[FileOf(w)].state = "json"
    /\ Goto(w, _load_memory(NewUserMemory, PartialFile), Handler(w))
    /\ loaded' = [loaded EXCEPT ![w] = [file |-> disk[FileOf(w)], failed |-> TRUE]]
    /\ UNCHANGED <<clock, mem_vars, dir_exists, disk, disk0, req, fd, trace,
                   query_type, first, call, resp, received, asked, calls, store_vars>>

\* a variant in which the IOError of a write leaves _save_memory
SaveFailed_raises(w) == Fail(w, "OSError")

\* _save_memory: except IOError: the error is printed, the write is given
\* up and the method returns
SaveFailed(w) ==
    /\ mem' = [mem EXCEPT ![w].writes = Tail(@)]
    /\ pc' = [pc EXCEPT ![w] = IF Len(mem[w].writes) > 1 THEN "open" ELSE resume[w]]
    /\ UNCHANGED <<loaded, resp>>

\* _save_memory: open(self.user_memory_file, 'w') raises IOError; the file
\* is left as it was
OpenFails(w) ==
    /\ pc[w] = "open"
    /\ SaveFailed(w)
    /\ UNCHANGED <<clock, mem_vars, dir_exists, disk, disk0, req, resume, fd, trace,
                   query_type, first, call, received, asked, calls, store_vars>>

\* _save_memory: json.dump raises IOError; the file, emptied by the open,
\* is left partly written
DumpFails(w) ==
    /\ pc[w] = "dump"
    /\ SaveFailed(w)
    /\ fd' = [fd EXCEPT ![w] = "closed"]
    /\ UNCHANGED <<clock, mem_vars, dir_exists, disk, disk0, req, resume, trace,
                   query_type, first, call, received, asked, calls, store_vars>>

\* remove_user_preferences: user_memory.remove_favorite_ingredient(ingredient)
RemovePreferences(w) ==
    /\ pc[w] = "remove"
    /\ Goto(w, remove_favorite_ingredient(mem[w], req[w].message).mem, "preferences")
    /\ trace' = [trace EXCEPT ![w] = Append(@, "remove")]
    /\ UNCHANGED <<clock, mem_vars, dir_exists, disk, disk0, loaded, req, fd, query_type,
                   first, call, resp, received, asked, calls, store_vars>>

\* remove_user_preferences: the PreferenceResponse, from the profile object
RespondPreferences(w) ==
    /\ pc[w] = "preferences"
    /\ resp' = [resp EXCEPT ![w] =
          [NoResponse EXCEPT
              !.status = 200,
              !.favorite_ingredients = mem[w].favorite_ingredients,
              !.favorite_cocktails = mem[w].favorite_cocktails]]
    /\ pc' = [pc EXCEPT ![w] = "idle"]
    /\ mem' = [mem EXCEPT ![w] = NewUserMemory]
    /\ UNCHANGED <<clock, mem_vars, dir_exists, disk, disk0, loaded, req, resume, fd, trace,
                   query_type, first, call, received, asked, calls, store_vars>>

NextIO ==
    \/ \E w \in OneWorker : Receive(w, ChatUsers, IoMessages, MaxRequests)
    \/ \E w \in OneWorker : ReceiveRemove(w, ChatUsers, MaxRequests)
    \/ \E w \in OneWorker : CheckDir(w)
    \/ \E w \in OneWorker : MakeDirs(w)
    \/ \E w \in OneWorker : Load(w)
    \/ \E w \in OneWorker : LoadFails(w)
    \/ \E w \in OneWorker : Open(w)
    \/ \E w \in OneWorker : OpenFails(w)
    \/ \E w \in OneWorker : Dump(w)
    \/ \E w \in OneWorker : DumpFails(w)
    \/ \E w \in OneWorker : Detect(w)
    \/ \E w \in OneWorker : Classify(w)
    \/ \E w \in OneWorker : Dispatch(w)
    \/ \E w \in OneWorker : Generate(w)
    \/ \E w \in OneWorker : GenerateFails(w)
    \/ \E w \in OneWorker : Respond(w)
    \/ \E w \in OneWorker : RemovePreferences(w)
    \/ \E w \in OneWorker : RespondPreferences(w)

SpecIO == InitServer(ChatUsers) /\ [][NextIO]_vars

(***************************************************************************)
(* SpecClassify: identify_query_type called on any queries, in any order.  *)
(***************************************************************************)
MaxCalls == 3

ClassifierQueries ==
    {"", " ", "hello", "what is a\nMojito", "WHAT IS A MOJITO?", "I love gin.",
     "cocktails with gin", "recommend a cocktail", "my favorite is gin",
     "similar to ", "like a Mojito, cocktails with gin", "what are my favorite cocktails",
     "what cocktails can I make with gin", "cocktails with lemon and mint"}

\* what identify_query_type returns on each of them
Classified ==
    [query \in ClassifierQueries |-> identify_query_type(query)] @@ <<>>

Identify ==
    /\ Len(calls) < MaxCalls
    /\ \E query \in ClassifierQueries :
          calls' = Append(calls, [query |-> query, intent |-> Classified[query]])
    /\ UNCHANGED <<clock, mem_vars, req_vars, store_vars>>

(***************************************************************************)
(* SpecExtract: extract_ingredients_from_query called on any of the        *)
(* queries "cocktails <keyword> <a><separator><b>".                        *)
(***************************************************************************)
ExtractKeywords   == {"with", "containing", "that has", "using"}
ExtractSeparators == {" and ", ", ", ","}
ExtractPieces     == {"lemon", "Mint ", "lime juice"}

ListQuery(keyword, a, separator, b) ==
    "cocktails " \o keyword \o " " \o a \o separator \o b

ExtractorQueries ==
    {ListQuery(x[1], x[2], x[3], x[4]) :
        x \in ExtractKeywords \X ExtractPieces \X ExtractSeparators \X ExtractPieces}

Extracted ==
    [query \in ExtractorQueries |-> extract_ingredients_from_query(query)] @@ <<>>

\* extract_ingredients_from_query called directly
Extract ==
    /\ \E keyword \in ExtractKeywords, separator \in ExtractSeparators,
          a \in ExtractPieces, b \in ExtractPieces :
          probe' = [op |-> "extract_ingredients_from_query",
                    query |-> ListQuery(keyword, a, separator, b),
                    separator |-> separator,
                    pieces |-> <<a, b>>,
                    result |-> Extracted[ListQuery(keyword, a, separator, b)]]
    /\ UNCHANGED <<clock, mem_vars, req_vars, calls, boot_vars>>

InitClassify ==
    /\ clock = 0
    /\ um = NewUserMemory /\ um_file = NoFile /\ log = <<>>
    /\ last = NoCall /\ prev = NoCall /\ nops = 0
    /\ NoServer
    /\ calls = <<>>
    /\ StoreIdle

NextClassify == Identify

SpecClassify == InitClassify /\ [][NextClassify]_vars

SpecExtract == InitClassify /\ [][Extract]_vars

(***************************************************************************)
(* SpecStore: the server process from its start, through the loading or    *)
(* building of the two index pairs (VectorDatabase.__init__) and the       *)
(* loading of the corpus, to the lookup endpoints it then serves.  The     *)
(* process may die at any step and be started again, and the corpus file   *)
(* may be edited at any time.                                              *)
(***************************************************************************)
\* get_cocktails_for_embedding: the text embedded for a record
Content(r) ==
    "Cocktail: " \o cocktails_df[r].name \o "\nIngredients: "
        \o cocktails_df[r].ingredients \o "\n"

\* embedding_model.encode(texts): one vector for each text, in order
encode(texts) == [k \in 1..Len(texts) |-> [embedding_of |-> texts[k]]]

RECURSIVE Distinct(_, _)
Distinct(items, i) ==
    IF i > Len(items) THEN <<>>
    ELSE (IF \E j \in 1..(i - 1) : items[j] = items[i] THEN <<>> ELSE <<items[i]>>)
         \o Distinct(items, i + 1)

Reverse(items) == [k \in 1..Len(items) |-> items[Len(items) + 1 - k]]

\* get_all_ingredients(): list(set(...)), the distinct tokens in an order the
\* source does not fix
get_all_ingredients(rows) ==
    Bind(Distinct(Flatten([k \in 1..Len(Frame(rows)) |->
                              cocktails_df[Frame(rows)[k]].ingredients_list]), 1),
         LAMBDA tokens : {tokens, Reverse(tokens)})

\* the text embedded for an entry of a pair's metadata list
TextOf(pair, entry) == IF pair = "cocktail" THEN Content(entry) ELSE entry

\* a variant that keeps the vectors of an index file it finds
IndexVectors_keeps_file(index_file, texts) ==
    IF index_file.exists THEN index_file.items ELSE encode(texts)

\* _create_cocktail_index / _create_ingredient_index: the vectors added to a
\* new IndexFlatL2
IndexVectors(index_file, texts) == encode(texts)

\* the index and the metadata list a build of the pair may produce
Builds(pair, rows, index_file) ==
    {[index |-> IndexVectors(index_file, [k \in 1..Len(data) |-> TextOf(pair, data[k])]),
      data |-> data] :
        data \in IF pair = "cocktail" THEN {Frame(rows)} ELSE get_all_ingredients(rows)}

Proc(step, pair) == [step |-> step, pair |-> pair]

\* what follows the pair in _load_or_create_indexes, then in RAGSystem.__init__
NextAfter(pair) ==
    IF pair = "cocktail" THEN Proc("check", "ingredient") ELSE Proc("rag_corpus", "")

\* the process starts: `rag_system = RAGSystem()` begins
Start ==
    /\ proc.step = "down"
    /\ proc' = Proc("check", "cocktail")
    /\ probe' = NoProbe
    /\ csv_reads' = {}
    /\ UNCHANGED <<clock, mem_vars, req_vars, calls, csv, df, artifacts, vdb, interrupted>>

\* _load_or_create_indexes on one pair: load both files, or build in memory
LoadOrCreate ==
    /\ proc.step = "check"
    /\ IF artifacts[proc.pair].index.exists /\ artifacts[proc.pair].data.exists
       THEN /\ vdb' = [vdb EXCEPT ![proc.pair] =
                          [index |-> artifacts[proc.pair].index.items,
                           data  |-> artifacts[proc.pair].data.items]]
            /\ proc' = NextAfter(proc.pair)
            /\ UNCHANGED csv_reads
       ELSE /\ \E built \in Builds(proc.pair, Corpora[csv], artifacts[proc.pair].index) :
                  vdb' = [vdb EXCEPT ![proc.pair] = built]
            /\ proc' = Proc("write_index", proc.pair)
            /\ csv_reads' = csv_reads \cup {"startup"}
    /\ UNCHANGED <<clock, mem_vars, req_vars, calls, probe, csv, df, artifacts, interrupted>>

\* faiss.write_index(...)
WriteIndex ==
    /\ proc.step = "write_index"
    /\ artifacts' = [artifacts EXCEPT ![proc.pair].index =
                        [exists |-> TRUE, items |-> vdb[proc.pair].index]]
    /\ proc' = Proc("write_data", proc.pair)
    /\ UNCHANGED <<clock, mem_vars, req_vars, calls, probe, csv, df, vdb, csv_reads,
                   interrupted>>

\* pickle.dump(...)
WriteData ==
    /\ proc.step = "write_data"
    /\ artifacts' = [artifacts EXCEPT ![proc.pair].data =
                        [exists |-> TRUE, items |-> vdb[proc.pair].data]]
    /\ proc' = NextAfter(proc.pair)
    /\ UNCHANGED <<clock, mem_vars, req_vars, calls, probe, csv, df, vdb, csv_reads,
                   interrupted>>

\* RAGSystem.__init__: self.data_processor = CocktailDataProcessor()
RagCorpus ==
    /\ proc.step = "rag_corpus"
    /\ csv_reads' = csv_reads \cup {"startup"}
    /\ proc' = Proc("routes_corpus", "")
    /\ UNCHANGED <<clock, mem_vars, req_vars, calls, probe, csv, df, artifacts, vdb,
                   interrupted>>

\* routes.py: data_processor = CocktailDataProcessor()
RoutesCorpus ==
    /\ proc.step = "routes_corpus"
    /\ df' = csv
    /\ csv_reads' = csv_reads \cup {"startup"}
    /\ proc' = Proc("serving", "")
    /\ UNCHANGED <<clock, mem_vars, req_vars, calls, probe, csv, artifacts, vdb,
                   interrupted>>

\* the process dies; what it held in memory is gone
Die ==
    /\ proc.step # "down"
    /\ proc' = Proc("down", "")
    /\ vdb' = NoIndexes
    /\ df' = 0
    /\ interrupted' = (interrupted \/ proc.step = "write_data")
    /\ UNCHANGED <<clock, mem_vars, req_vars, calls, probe, csv, artifacts, csv_reads>>

\* somebody replaces the corpus file
EditCsv ==
    /\ csv' = 3 - csv
    /\ UNCHANGED <<clock, mem_vars, req_vars, calls, probe, proc, df, artifacts, vdb,
                   csv_reads, interrupted>>

IngredientQueries == {"gin", " gin", "GIN", "lime ", "juice", "kale", "Mint"}
NameQueries == {"mojito", "MOJITO", "jito", "virgin", "zombie", "m.jito", "(", "gin fizz"}
SimilarQueries == {"mojito", "zombie", "("}
Limits == {2, 5}

Containing ==
    [ingredient \in IngredientQueries |-> get_cocktails_containing(ingredient)] @@ <<>>

ByName ==
    [c \in 1..Len(Corpora) |->
        [name \in NameQueries |->
            [raises |-> get_cocktail_by_name_raises(Corpora[c], name),
             found  |-> get_cocktail_by_name_in(Corpora[c], name)]]] @@ <<>>

\* POST /cocktails/by-ingredient
GetCocktailsByIngredient ==
    /\ proc.step = "serving"
    /\ \E ingredient \in IngredientQueries, alcoholic_only \in BOOLEAN, limit \in Limits :
        \E matching \in {Frame(Range(Containing[ingredient]) \cap Corpora[df])} :
          probe' = [op |-> "get_cocktails_by_ingredient",
                    ingredient |-> ingredient,
                    corpus |-> df,
                    matching |-> matching,
                    status |-> 200,
                    cocktails |->
                        FirstN(IF alcoholic_only
                               THEN SelectSeq(matching,
                                              LAMBDA r : cocktails_df[r].is_alcoholic)
                               ELSE matching, limit)]
    /\ UNCHANGED <<clock, mem_vars, req_vars, calls, boot_vars>>

\* GET /cocktails/{name}
GetCocktailByName ==
    /\ proc.step = "serving"
    /\ \E name \in NameQueries :
          probe' = [op |-> "get_cocktail_by_name",
                    name |-> name,
                    corpus |-> df,
                    found |-> IF ByName[df][name].raises THEN <<>>
                              ELSE ByName[df][name].found,
                    status |-> IF ByName[df][name].raises THEN 500
                               ELSE IF ByName[df][name].found = <<>> THEN 404
                               ELSE 200]
    /\ UNCHANGED <<clock, mem_vars, req_vars, calls, boot_vars>>

\* the squared distances of the stored vectors, by position, from a query
QueryDistances == {<<0, 1, 2, 3, 4>>, <<2, 4, 0, 3, 1>>, <<1, 1, 0, 4, 4>>}
TopKs == {1, 3, 6}

\* the largest float32, the distance IndexFlatL2 reports where it has no
\* result; far above every distance of the model
FLT_MAX == 2 ^ 20

\* the stored positions, nearest first
RECURSIVE Nearest(_, _)
Nearest(positions, distances) ==
    IF positions = {} THEN <<>>
    ELSE Bind(CHOOSE p \in positions :
                  \A q \in positions :
                      \/ distances[p] < distances[q]
                      \/ distances[p] = distances[q] /\ p <= q,
              LAMBDA p : <<p>> \o Nearest(positions \ {p}, distances))

\* cocktail_index.search(embedding, top_k) on an index of n vectors: the
\* distances and the 0-based positions of the top_k nearest, -1 where there
\* are fewer than top_k vectors
index_search(n, distances, top_k) ==
    Bind(Nearest(1..n, distances), LAMBDA order :
        [i \in 1..top_k |->
            IF i <= n THEN [idx |-> order[i] - 1, distance |-> distances[order[i]]]
            ELSE [idx |-> -1, distance |-> FLT_MAX]])

\* 1.0 / (1.0 + distance), as a fraction
Score(distance) == [num |-> 1, den |-> 1 + distance]

\* search_cocktails from the hits on: an entry of cocktail_data with its score
\* for every hit whose position is below len(cocktail_data)
search_results(data, hits) ==
    Bind(SelectSeq(hits, LAMBDA h : h.idx < Len(data)), LAMBDA kept :
        [i \in 1..Len(kept) |->
            [entry |-> data[IF kept[i].idx >= 0 THEN kept[i].idx + 1
                            ELSE Len(data) + kept[i].idx + 1],
             idx   |-> kept[i].idx,
             score |-> Score(kept[i].distance)]])

\* POST /recommendations with ingredients: get_cocktails_with_ingredients,
\* which is search_cocktails on a query made of the ingredients
GetCocktailsWithIngredients ==
    /\ proc.step = "serving"
    /\ \E distances \in QueryDistances, top_k \in TopKs :
          probe' = [op |-> "search_cocktails",
                    top_k |-> top_k,
                    distances |-> distances,
                    stored |-> Len(vdb["cocktail"].index),
                    status |-> 200,
                    results |->
                        search_results(vdb["cocktail"].data,
                                       index_search(Len(vdb["cocktail"].index),
                                                    distances, top_k))]
    /\ UNCHANGED <<clock, mem_vars, req_vars, calls, boot_vars>>

\* POST /recommendations with similar_to: get_similar_cocktails, which builds
\* a CocktailDataProcessor of its own to look the name up
GetSimilarCocktails ==
    /\ proc.step = "serving"
    /\ \E name \in SimilarQueries, distances \in QueryDistances, top_k \in TopKs :
          probe' = [op |-> "get_similar_cocktails",
                    name |-> name,
                    corpus |-> csv,
                    status |-> IF ByName[csv][name].raises THEN 500 ELSE 200,
                    results |->
                        IF ByName[csv][name].raises \/ ByName[csv][name].found = <<>>
                        THEN <<>>
                        ELSE search_results(vdb["cocktail"].data,
                                            index_search(Len(vdb["cocktail"].index),
                                                         distances, top_k))]
    /\ csv_reads' = csv_reads \cup {"request"}
    /\ UNCHANGED <<clock, mem_vars, req_vars, calls, csv, proc, df, artifacts, vdb,
                   interrupted>>

InitStore ==
    /\ clock = 0
    /\ um = NewUserMemory /\ um_file = NoFile /\ log = <<>>
    /\ last = NoCall /\ prev = NoCall /\ nops = 0
    /\ NoServer
    /\ calls = <<>>
    /\ StoreIdle

NextStore ==
    \/ Start
    \/ LoadOrCreate
    \/ WriteIndex
    \/ WriteData
    \/ RagCorpus
    \/ RoutesCorpus
    \/ Die
    \/ EditCsv
    \/ GetCocktailsByIngredient
    \/ GetCocktailByName
    \/ GetCocktailsWithIngredients
    \/ GetSimilarCocktails

SpecStore == InitStore /\ [][NextStore]_vars

\* the intent groups in the order identify_query_type tries them
GroupOrder == <<"ingredient_query", "cocktail_query", "recommendation", "preference">>

GroupLiterals ==
    <<IngredientLiterals, CocktailLiterals, RecommendationLiterals, PreferenceLiterals>>

\* the groups with a template found in the lowercased query, spelled as written
MatchedGroups ==
    [query \in ClassifierQueries |->
        {g \in 1..Len(GroupOrder) : AnyPattern(GroupLiterals[g], lower(query))}] @@ <<>>

\* C11: every classified query gets the intent of the first group, in the
\* order ingredient, cocktail, recommendation, preference, one of whose
\* templates it matches, and "general" when it matches none.
C11_FirstGroupWins ==
    \A k \in 1..Len(calls) :
        calls[k].intent =
            IF MatchedGroups[calls[k].query] = {} THEN "general"
            ELSE GroupOrder[Min(MatchedGroups[calls[k].query])]

\* a query matching two groups and a query matching none have been classified
C11_Witness ==
    /\ \E k \in 1..Len(calls) :
          /\ Cardinality(MatchedGroups[calls[k].query]) >= 2
          /\ calls[k].intent = "ingredient_query"
    /\ \E k \in 1..Len(calls) :
          /\ MatchedGroups[calls[k].query] = {}
          /\ calls[k].intent = "general"

\* the templates of a group with their letters lowercased
LowerLiterals(group) ==
    [p \in 1..Len(group) |->
        [lits |-> LowerAll(group[p].lits), capture |-> group[p].capture]]

\* the groups with a template found in the query, letter case ignored
FitsIgnoringCase ==
    [query \in ClassifierQueries |->
        {g \in 1..Len(GroupOrder) :
            AnyPattern(LowerLiterals(GroupLiterals[g]), lower(query))}] @@ <<>>

\* C12: a classified query that fits a template of a group, letter case
\* ignored, gets the intent of the first such group.
C12_CaseInsensitive ==
    \A k \in 1..Len(calls) :
        FitsIgnoringCase[calls[k].query] # {} =>
            calls[k].intent = GroupOrder[Min(FitsIgnoringCase[calls[k].query])]

\* C13: the extractor called on "cocktails <keyword> <a><separator><b>", the
\* separator a comma or the word "and", returns the two pieces lowercased
\* and trimmed, in order.
C13_SplitsOnCommaAndAnd ==
    probe.op = "extract_ingredients_from_query" =>
        probe.result = <<lower(strip(probe.pieces[1])), lower(strip(probe.pieces[2]))>>

(***************************************************************************)
(* Properties of a request (checked under Spec).                           *)
(***************************************************************************)
Occurs(event, events) == \E k \in 1..Len(events) : events[k] = event

\* the request of worker w has been answered
Answered(w) == pc[w] = "idle" /\ resp[w].status # 0

LastEntry(m) == m.conversation_history[Len(m.conversation_history)]

\* C7: in every request generate_response serves, preference detection on the
\* raw message comes first and is complete (the message is in the history and
\* the profile is saved) when the intent is classified; no classification,
\* retrieval or generation call precedes it, and no answered request went
\* without it, whatever its intent.
C7_DetectionFirst ==
    \A w \in OneWorker :
        /\ trace[w] # <<>> => trace[w][1] = "detect"
        /\ query_type[w] # "" => trace[w] # <<>>
        /\ Answered(w) => trace[w] # <<>> /\ query_type[w] \in QueryTypes
        /\ pc[w] = "classify" =>
              /\ trace[w] = <<"detect">>
              /\ mem[w].writes = <<>>
              /\ LastEntry(mem[w]).role = "user"
              /\ LastEntry(mem[w]).content = req[w].message
              /\ first[w].new_favorite_ingredients =
                    FirstNew(DetectedIngredients[req[w].message],
                             mem[w].favorite_ingredients
                                \ Range(first[w].new_favorite_ingredients))
              /\ disk[FileOf(w)] = JsonFile(Profile(mem[w]))

C7_Witness ==
    \E w \in OneWorker :
        /\ Answered(w)
        /\ query_type[w] = "cocktail_query"
        /\ trace[w] = <<"detect", "classify", "retrieve", "generate">>

\* the message asks to recall the preferences
AsksRecall(message) ==
    Contains(lower(message), "what are my") \/ Contains(lower(message), "tell me my")

\* C8: in the preference branch, for a message that does not ask to recall
\* preferences, when the first detection of the request added a favorite the
\* generation collaborator is called with the "updated preferences" context
\* listing the items added, and the general context is used only when the
\* first detection added none.
C8_ReportsDetected ==
    \A w \in OneWorker :
        (/\ query_type[w] = "preference"
         /\ ~AsksRecall(req[w].message)
         /\ call[w].kind = "generate")
        => IF \/ first[w].new_favorite_ingredients # <<>>
              \/ first[w].new_favorite_cocktails # <<>>
           THEN /\ call[w].context.kind = "updated_preferences"
                /\ call[w].context.ingredients = first[w].new_favorite_ingredients
                /\ call[w].context.names = first[w].new_favorite_cocktails
           ELSE call[w].context.kind = "general"

\* entity extraction found nothing to look up
NoEntity(w) ==
    \/ /\ query_type[w] = "ingredient_query"
       /\ ExtractedIngredients[req[w].message] = <<>>
    \/ /\ query_type[w] = "cocktail_query"
       /\ ExtractedCocktail[req[w].message] \in {<<>>, <<"">>}

Clarification(w) ==
    IF query_type[w] = "ingredient_query" THEN CLARIFY_INGREDIENTS ELSE CLARIFY_COCKTAIL

\* C9: when the intent is ingredient_query or cocktail_query and extraction
\* yields no ingredient or no cocktail name, the processor returns the
\* clarification prompt, the request is answered with it, and the request
\* performs no corpus or vector retrieval and no generation call.
C9_ClarifiesWithoutRetrieval ==
    \A w \in OneWorker :
        (NoEntity(w) /\ call[w].kind # "none")
        => /\ call[w].kind = "return"
           /\ call[w].text = Clarification(w)
           /\ ~Occurs("retrieve", trace[w])
           /\ ~Occurs("generate", trace[w])
           /\ trace[w] = <<"detect", "classify">>
           /\ Answered(w) => resp[w].status = 200 /\ resp[w].response = Clarification(w)

C9_Witness ==
    \E w \in OneWorker :
        /\ Answered(w)
        /\ query_type[w] = "cocktail_query"
        /\ ExtractedCocktail[req[w].message] = <<"">>
        /\ resp[w].response = CLARIFY_COCKTAIL

C9_WitnessIngredients ==
    \E w \in OneWorker :
        /\ Answered(w)
        /\ query_type[w] = "ingredient_query"
        /\ ExtractedIngredients[req[w].message] = <<>>
        /\ resp[w].response = CLARIFY_INGREDIENTS

(***************************************************************************)
(* Properties of identify_query_type (checked under SpecClassify).         *)
(***************************************************************************)
\* C10: identify_query_type maps every query to one of the five intents, and
\* calls on the same query return the same intent, whatever was classified
\* in between.
C10_TotalAndStable ==
    /\ \A k \in 1..Len(calls) : calls[k].intent \in QueryTypes
    /\ \A j, k \in 1..Len(calls) :
          calls[j].query = calls[k].query => calls[j].intent = calls[k].intent

C10_Witness ==
    /\ Len(calls) = 3
    /\ calls[1].query = calls[3].query
    /\ calls[2].intent # calls[1].intent
    /\ calls[1].intent = "general"

(***************************************************************************)
(* Properties of overlapping requests (checked under SpecConc).            *)
(***************************************************************************)
\* what the requests received for user u can have added to u's favorites
RECURSIVE UnionOf(_)
UnionOf(sets) ==
    IF sets = {} THEN {}
    ELSE LET one == CHOOSE x \in sets : TRUE IN one \cup UnionOf(sets \ {one})

OwnIngredients(u) == UnionOf({Range(DetectedIngredients[msg]) : msg \in asked[u]})
OwnCocktails(u)   == UnionOf({Range(DetectedCocktails[msg]) : msg \in asked[u]})

\* C2: overlapping requests for one user end in a lost update at worst: no
\* request fails, other than by a failure of the generation collaborator.
C2_NeverACrash ==
    \A w \in Workers : resp[w].error \in {"", "GenerationError"}

\* a lost update: both workers answered requests of one user, each having
\* saved its message in the history, and the profile on disk holds the
\* message of one of them only
C2_LostUpdate ==
    /\ Answered(1) /\ Answered(2)
    /\ resp[1].status = 200 /\ resp[2].status = 200
    /\ req[1].user_id = req[2].user_id
    /\ req[1].message # req[2].message
    /\ disk[FileOf(1)].state = "json"
    /\ \E k \in 1..Len(disk[FileOf(1)].data.conversation_history) :
          disk[FileOf(1)].data.conversation_history[k].content = req[2].message
    /\ \A k \in 1..Len(disk[FileOf(1)].data.conversation_history) :
          disk[FileOf(1)].data.conversation_history[k].content # req[1].message
    /\ DetectedIngredients[req[1].message] # <<>>
    /\ \A k \in 1..Len(DetectedIngredients[req[1].message]) :
          DetectedIngredients[req[1].message][k]
              \notin disk[FileOf(1)].data.favorite_ingredients

C2_NoLostUpdate == ~C2_LostUpdate

Candidates ==
    [query \in ChatMessages |->
        {r \in Rows :
            /\ \A k \in 1..Len(ExtractedIngredients[query]) :
                  r \in Range(get_cocktails_containing(ExtractedIngredients[query][k]))
            /\ (\/ Contains(lower(query), "non-alcoholic")
                \/ Contains(lower(query), "non alcoholic")) => ~cocktails_df[r].is_alcoholic}]
    @@ <<>>

\* C15: for an ingredient query with several extracted ingredients the
\* processor renders from the intersection of the per-ingredient results,
\* each record once: it reports "not found" when the intersection is empty
\* and otherwise hands the generation collaborator the first names of the
\* intersection, in corpus order, and its size.
C15_Intersection ==
    \A w \in OneWorker :
        (/\ query_type[w] = "ingredient_query"
         /\ Len(ExtractedIngredients[req[w].message]) >= 2
         /\ call[w].kind # "none") =>
            IF Candidates[req[w].message] = {}
            THEN call[w].kind = "return"
            ELSE /\ call[w].kind = "generate"
                 /\ call[w].context.found = Cardinality(Candidates[req[w].message])
                 /\ call[w].context.names =
                       FirstN(Names(Frame(Candidates[req[w].message])),
                              QueryLimit(req[w].message))

Count(event, events) == Len(SelectSeq(events, LAMBDA e : e = event))

\* C20: no request calls the generation collaborator more than once, on any
\* dispatch path; a request whose generation call failed made that one call,
\* ended in the error response, and left the user's message, not an
\* assistant entry, as the last entry of the saved history.
C20_OneGenerationNoRetry ==
    \A w \in OneWorker :
        /\ Count("generate", trace[w]) <= 1
        /\ (Answered(w) /\ resp[w].error = "GenerationError") =>
              /\ resp[w].status = 500
              /\ Count("generate", trace[w]) = 1
              /\ trace[w][Len(trace[w])] = "generate"
              /\ disk[FileOf(w)].state = "json"
              /\ LastEntry(disk[FileOf(w)].data).role = "user"
              /\ LastEntry(disk[FileOf(w)].data).content = req[w].message

\* a preference request that fell back to the general path and whose
\* generation call failed
C20_Witness ==
    \E w \in OneWorker :
        /\ Answered(w)
        /\ resp[w].error = "GenerationError"
        /\ query_type[w] = "preference"
        /\ call[w].context.kind = "general"
        /\ Count("generate", trace[w]) = 1

(***************************************************************************)
(* Properties of the corpus and the index pairs (checked under SpecStore). *)
(***************************************************************************)
\* C14: a record of the loaded corpus is in the result of
\* get_cocktails_containing(i) exactly when one of its ingredient tokens
\* contains i lowercased and trimmed.
C14_ContainsNormalized ==
    probe.op = "get_cocktails_by_ingredient" =>
        \A r \in Corpora[probe.corpus] :
            r \in Range(probe.matching) <=>
                \E k \in 1..Len(cocktails_df[r].ingredients_list) :
                    Contains(cocktails_df[r].ingredients_list[k],
                             lower(strip(probe.ingredient)))

\* the rows of the corpus whose name is the name looked up, and those whose
\* name contains it, letter case ignored
NamedExactly(rows, name) == {r \in rows : lower(cocktails_df[r].name) = lower(name)}
NamedLike(rows, name) ==
    {r \in rows : Contains(lower(cocktails_df[r].name), lower(name))}

\* C16: a name lookup returns a record named exactly like the query, case
\* ignored, when there is one; else the first record in corpus order whose
\* name contains the query; else it reports not found (404).
C16_ExactThenFirstContaining ==
    probe.op = "get_cocktail_by_name" =>
        IF NamedExactly(Corpora[probe.corpus], probe.name) # {}
        THEN /\ probe.status = 200
             /\ probe.found[1] \in NamedExactly(Corpora[probe.corpus], probe.name)
        ELSE IF NamedLike(Corpora[probe.corpus], probe.name) # {}
        THEN /\ probe.status = 200
             /\ probe.found = <<Min(NamedLike(Corpora[probe.corpus], probe.name))>>
        ELSE probe.status = 404

\* C17: the scores of a search come in non-increasing order, each is
\* 1/(1+d) for the distance d >= 0 of a stored vector the search retrieved,
\* and each lies in (0, 1].
C17_ScoresOrderedAndBounded ==
    probe.op = "search_cocktails" =>
        /\ \A i \in 1..Len(probe.results) :
              /\ \E p \in 1..probe.stored :
                    /\ probe.results[i].idx = p - 1
                    /\ probe.distances[p] >= 0
                    /\ probe.results[i].score = Score(probe.distances[p])
              /\ 0 < probe.results[i].score.num
              /\ probe.results[i].score.num <= probe.results[i].score.den
        /\ \A i \in 1..(Len(probe.results) - 1) :
              probe.results[i].score.num * probe.results[i + 1].score.den
                  >= probe.results[i + 1].score.num * probe.results[i].score.den

\* C18: while the process serves, each index holds as many vectors as its
\* metadata list has entries, and the vector at every position is the
\* embedding of the entry at that position.
C18_IndexAlignedWithMetadata ==
    proc.step = "serving" =>
        \A pair \in Pairs :
            /\ Len(vdb[pair].index) = Len(vdb[pair].data)
            /\ vdb[pair].index =
                  encode([k \in 1..Len(vdb[pair].data) |-> TextOf(pair, vdb[pair].data[k])])

\* the process serves requests after a start that followed a build cut
\* between its two writes, on a corpus file edited since that build
C18_Witness ==
    /\ proc.step = "serving"
    /\ interrupted
    /\ probe.op = "search_cocktails"
    /\ vdb["cocktail"].data = Frame(Corpora[2])
    /\ vdb["ingredient"].data \in get_all_ingredients(Corpora[1])

\* C19: the corpus file is read during startup only, and every lookup
\* observes the corpus loaded at startup.
C19_LoadedOnlyAtStartup ==
    /\ csv_reads \subseteq {"startup"}
    /\ probe.op \in {"get_cocktails_by_ingredient", "get_cocktail_by_name",
                     "get_similar_cocktails"} => probe.corpus = df

(***************************************************************************)
(* Properties of what one request does to the profile (checked under       *)
(* Spec).  The request has completed when its processor has returned and   *)
(* the handler is about to compose the response: the profile object is     *)
(* then in its final state.                                                *)
(***************************************************************************)
\* the profile the request's object started from
LoadedProfile(w) ==
    IF loaded[w].failed THEN EmptyProfile ELSE loaded[w].file.data

\* the history entries the request has appended so far
Appended(w) ==
    SubSeq(mem[w].conversation_history,
           Len(LoadedProfile(w).conversation_history) + 1,
           Len(mem[w].conversation_history))

OfRole(role, entries) == SelectSeq(entries, LAMBDA e : e.role = role)

Completed(w) == pc[w] = "respond"

\* C21: a request appends an assistant entry to the history if and only if
\* the generation collaborator returned a reply in it; it appends one such
\* entry, the entry holds that reply, and it is the last entry of the history
\* when the request completes.  A reply returned without generation (a
\* clarification, a not-found message) is not recorded.
C21_AssistantEntryIffGenerated ==
    \A w \in OneWorker :
        /\ Len(OfRole("assistant", Appended(w))) <= 1
        /\ Completed(w) =>
              IF call[w].kind = "generate"
              THEN /\ OfRole("assistant", Appended(w)) = <<LastEntry(mem[w])>>
                   /\ LastEntry(mem[w]).content = call[w].text
                   /\ call[w].text \in Replies
              ELSE /\ call[w].kind = "return"
                   /\ OfRole("assistant", Appended(w)) = <<>>

C21_Witness ==
    \E w \in OneWorker :
        /\ Completed(w)
        /\ call[w].kind = "generate"
        /\ call[w].then = "detect_assistant"
        /\ Len(Appended(w)) = 3
        /\ LastEntry(mem[w]).role = "assistant"

C21_WitnessNotRecorded ==
    \E w \in OneWorker :
        /\ Completed(w)
        /\ call[w].kind = "return"
        /\ call[w].text = CLARIFY_COCKTAIL
        /\ OfRole("assistant", Appended(w)) = <<>>

\* the message asks for a recommendation from the user's favorites
FromFavorites(query) ==
    \/ Contains(lower(query), "favorite")
    \/ Contains(lower(query), "favourites")
    \/ Contains(lower(query), "prefer")

NamesACocktail(query) == ExtractedCocktail[query] \notin {<<>>, <<"">>}

\* the request is in its processor or past it, its profile object at hand
Dispatched(w) == pc[w] # "idle" /\ call[w].kind # "none"

\* C23: the recommendation processor chooses its candidates in a fixed
\* order.  A message that asks from the favorites is served from the user's
\* favorite ingredients (get_cocktails_with_ingredients), also when a
\* cocktail name can be extracted from it, and with no favorite ingredient
\* it is answered by the prompt for preferences, without retrieval and
\* without generation.  Otherwise a message that names a cocktail is served
\* by get_similar_cocktails on that name, and any other by a sample of
\* records.
C23_SourceOrder ==
    \A w \in OneWorker :
        (Dispatched(w) /\ query_type[w] = "recommendation") =>
            IF FromFavorites(req[w].message)
            THEN IF mem[w].favorite_ingredients = {}
                 THEN /\ call[w].kind = "return"
                      /\ call[w].text = ASK_FAVORITES
                      /\ ~Occurs("retrieve", trace[w])
                      /\ ~Occurs("generate", trace[w])
                 ELSE /\ call[w].kind = "generate"
                      /\ call[w].context.kind = "favorites"
                      /\ call[w].context.favorite_ingredients = mem[w].favorite_ingredients
                      /\ Occurs("retrieve", trace[w])
            ELSE IF NamesACocktail(req[w].message)
            THEN /\ Occurs("retrieve", trace[w])
                 /\ \/ /\ call[w].kind = "generate"
                       /\ call[w].context.kind = "similar"
                       /\ call[w].context.about = ExtractedCocktail[req[w].message][1]
                    \/ /\ call[w].kind = "return"
                       /\ call[w].text =
                              NotFoundSimilar(ExtractedCocktail[req[w].message][1])
            ELSE /\ call[w].kind = "generate"
                 /\ call[w].context.kind = "popular"
                 /\ Len(call[w].context.names) = SAMPLE_SIZE

C23_Witness ==
    \E w \in OneWorker :
        /\ Completed(w)
        /\ query_type[w] = "recommendation"
        /\ FromFavorites(req[w].message)
        /\ NamesACocktail(req[w].message)
        /\ call[w].context.kind = "favorites"
        /\ call[w].context.favorite_ingredients = {"gin"}

C23_WitnessNoFavorites ==
    \E w \in OneWorker :
        /\ Completed(w)
        /\ query_type[w] = "recommendation"
        /\ FromFavorites(req[w].message)
        /\ mem[w].favorite_ingredients = {}
        /\ call[w].text = ASK_FAVORITES
        /\ trace[w] = <<"detect", "classify">>

\* C25: the detected_preferences of a chat response list only the
\* preferences the message newly added: an ingredient or a cocktail that was
\* a favorite already before the request is not listed, even if the message
\* expresses it again.
C25_ListsOnlyNewlyAdded ==
    \A w \in OneWorker :
        (Answered(w) /\ resp[w].status = 200) =>
            /\ \A x \in Range(resp[w].detected_preferences.ingredients) :
                   x \notin LoadedProfile(w).favorite_ingredients
            /\ \A x \in Range(resp[w].detected_preferences.cocktails) :
                   x \notin LoadedProfile(w).favorite_cocktails

\* C26: a request appends the user's message to the history once, whichever
\* processor serves it, so that it takes at most two entries of the history:
\* the user's and at most one of the assistant.
C26_UserMessageOnce ==
    \A w \in OneWorker :
        Completed(w) =>
            /\ Len(OfRole("user", Appended(w))) = 1
            /\ Appended(w)[1].content = req[w].message
            /\ Len(Appended(w)) <= 2

\* C29: a request changes the favorite sets only by adding what preference
\* detection finds in its message.  It never removes a favorite, and on
\* every path the sets after the request are the sets before it united with
\* the items detected in the message: unchanged when nothing is detected, as
\* in a request to recall the preferences.  The profile file then holds the
\* same sets.
C29_FavoritesOnlyGrowByDetected ==
    \A w \in OneWorker :
        /\ (pc[w] # "idle") =>
              /\ LoadedProfile(w).favorite_ingredients \subseteq mem[w].favorite_ingredients
                    \/ pc[w] \in {"exists", "makedirs", "load"}
              /\ LoadedProfile(w).favorite_cocktails \subseteq mem[w].favorite_cocktails
                    \/ pc[w] \in {"exists", "makedirs", "load"}
        /\ Completed(w) =>
              /\ mem[w].favorite_ingredients =
                     LoadedProfile(w).favorite_ingredients
                        \cup Range(DetectedIngredients[req[w].message])
              /\ mem[w].favorite_cocktails =
                     LoadedProfile(w).favorite_cocktails
                        \cup Range(DetectedCocktails[req[w].message])
        /\ (Answered(w) /\ resp[w].status = 200) =>
              /\ disk[FileOf(w)].state = "json"
              /\ disk[FileOf(w)].data.favorite_ingredients =
                     LoadedProfile(w).favorite_ingredients
                        \cup Range(DetectedIngredients[req[w].message])
              /\ disk[FileOf(w)].data.favorite_cocktails =
                     LoadedProfile(w).favorite_cocktails
                        \cup Range(DetectedCocktails[req[w].message])

C29_Witness ==
    \E w \in OneWorker :
        /\ Completed(w)
        /\ query_type[w] = "preference"
        /\ LoadedProfile(w).favorite_ingredients = {"gin"}
        /\ LoadedProfile(w).favorite_cocktails = {"gin"}
        /\ mem[w].favorite_ingredients = {"gin", "lime"}
        /\ mem[w].favorite_cocktails = {"gin"}

C29_WitnessRecall ==
    \E w \in OneWorker :
        /\ Completed(w)
        /\ call[w].context.kind = "recall"
        /\ DetectedIngredients[req[w].message] = <<>>
        /\ LoadedProfile(w).favorite_ingredients = {"gin", "lime"}
        /\ mem[w].favorite_ingredients = {"gin", "lime"}

\* C27: in a similar-to recommendation the context handed to the generation
\* collaborator never lists the target cocktail, the record the name lookup
\* resolved to, whether the name matched exactly or as a part of the
\* record's name.
C27_TargetNotListed ==
    \A w \in OneWorker :
        call[w].context.kind = "similar" =>
            \A r \in Range(get_cocktail_by_name(call[w].context.about)) :
                cocktails_df[r].name \notin Range(call[w].context.names)

(***************************************************************************)
(* Properties of the vector search, continued (checked under SpecStore).   *)
(***************************************************************************)
\* C24: search_cocktails(query, k) returns at most min(k, number of stored
\* vectors) results, each for a distinct retrieved vector that is stored; a
\* retrieved position that denotes no stored vector (one beyond the metadata
\* list, or the "no result" position -1 of a search for more vectors than
\* are stored) contributes no result.
C24_AtMostStoredResults ==
    probe.op = "search_cocktails" =>
        /\ Len(probe.results) <= Min({probe.top_k, probe.stored})
        /\ \A i \in 1..Len(probe.results) :
              probe.results[i].idx \in 0..(probe.stored - 1)
        /\ \A i, j \in 1..Len(probe.results) :
              probe.results[i].idx = probe.results[j].idx => i = j

(***************************************************************************)
(* Properties of the profile file of one object (checked under SpecMemory, *)
(* where no write fails and nothing else writes the file).                 *)
(***************************************************************************)
\* the latest call saved the profile
Saved(made) ==
    \/ made.op \in {"add_favorite_ingredient", "add_favorite_cocktail",
                    "add_to_conversation_history", "process_user_message"}
    \/ made.op \in {"remove_favorite_ingredient", "remove_favorite_cocktail"}
          /\ made.removed

\* C28: with one writer and no I/O failure, after every completed operation
\* of a profile object the persisted profile equals the one in memory, so
\* that an object created next for the same user starts with the same
\* favorite sets and the same history.
C28_PersistedEqualsInMemory ==
    /\ Profile(_load_memory(NewUserMemory, um_file)) = Profile(um)
    /\ _load_memory(NewUserMemory, um_file).writes = <<>>
    /\ Saved(last) => um_file = JsonFile(Profile(um))

C28_Witness ==
    /\ prev.op = "process_user_message"
    /\ last.op = "remove_favorite_cocktail"
    /\ last.removed
    /\ strip(last.arg) \in Range(prev.new_favorite_cocktails)
    /\ um_file.state = "json"
    /\ strip(last.arg) \notin um_file.data.favorite_cocktails
    /\ um_file.data.favorite_ingredients # {}
    /\ Len(um_file.data.conversation_history) = Len(um.conversation_history)

(***************************************************************************)
(* Properties of a failing profile store (checked under SpecIO).           *)
(***************************************************************************)
\* C22: a failed write of the profile file during a mutating operation is
\* not fatal.  No request ends in an error of the store; the operation
\* returns, the favorites and the history in memory keep its change, and
\* what the same request does next reads them from memory: the context of
\* the generation call, the detected_preferences of the chat response and
\* the favorites of the /preferences/remove response are those of the
\* profile object, whatever reached the file.
C22_WriteFailureNonFatal ==
    \A w \in OneWorker :
        /\ resp[w].error \in {"", "GenerationError"}
        /\ (req[w].path = "/chat" /\ Completed(w)) =>
              /\ mem[w].favorite_ingredients =
                     LoadedProfile(w).favorite_ingredients
                        \cup Range(DetectedIngredients[req[w].message])
              /\ Appended(w) # <<>>
              /\ Appended(w)[1] = [role |-> "user", content |-> req[w].message,
                                   timestamp |-> Appended(w)[1].timestamp]
              /\ call[w].context.kind \in {"recall", "general"} =>
                     call[w].context.favorite_ingredients = mem[w].favorite_ingredients
        /\ (req[w].path = "/chat" /\ Answered(w) /\ resp[w].status = 200) =>
              resp[w].detected_preferences.ingredients =
                  DetectedIngredients[req[w].message]
        /\ (req[w].path = "/preferences/remove" /\ Answered(w)) =>
              /\ resp[w].status = 200
              /\ resp[w].favorite_ingredients =
                     LoadedProfile(w).favorite_ingredients
                        \ {strip(lower(req[w].message))}

\* the remove was answered from memory while its write failed: the file
\* still holds the ingredient
C22_Witness ==
    \E w \in OneWorker :
        /\ Answered(w)
        /\ req[w].path = "/preferences/remove"
        /\ loaded[w] = [file |-> JsonFile(SeedProfile), failed |-> FALSE]
        /\ resp[w].favorite_ingredients = {}
        /\ disk[FileOf(w)] = JsonFile(SeedProfile)

C22_WitnessChat ==
    \E w \in OneWorker :
        /\ Answered(w)
        /\ req[w].path = "/chat"
        /\ resp[w].detected_preferences.ingredients = <<"lime">>
        /\ resp[w].response \in Replies
        /\ disk[FileOf(w)].state = "partial"

\* C30: a failure to read or to parse the persisted profile when the profile
\* object is created is not fatal and leaves the persisted profile as it
\* was: once the object is constructed the file still holds what it held.
C30_FailedLoadKeepsFile ==
    \A w \in OneWorker :
        /\ resp[w].error # "OSError"
        /\ (loaded[w].failed /\ pc[w] = Handler(w)) =>
              disk[FileOf(w)] = loaded[w].file

====
